---- MODULE Spec2Model ----
(***************************************************************************)
(* Model of cloud-cost-mcp: the expiring PricingCache (src/data/cache.ts), *)
(* the real-time fetchers that populate it, the bundled-data loader and    *)
(* the comparison engine (compareCompute, compareEgress).                  *)
(*                                                                         *)
(* Conventions                                                             *)
(*   - time is Date.now() in milliseconds;                                 *)
(*   - `T | null` is an option: <<>> is null, <<v>> is the value v;        *)
(*   - the Map of the cache is a function whose DOMAIN is the set of keys  *)
(*     held (iteration order of the Map is not modelled);                  *)
(*   - money is in integer cents, GB and vCPUs are integers, memory is in  *)
(*     units of 0.5 GB, so every product and comparison is exact.          *)
(***************************************************************************)
EXTENDS Integers, Sequences, FiniteSets, TLC

VARIABLES
    cache,      \* PricingCache.cache : key -> [data, timestamp, expiresAt]
    now,        \* Date.now()
    lastOp,     \* the last cache operation called, its arguments and result
    lastSet,    \* history: per key, the most recent set not yet deleted/cleared
    calls,      \* per caller, the fetcher call it has under way
    bundled,    \* the bundled <provider>-pricing.json files on disk
    computeResult,  \* the last compareCompute query and what it returned
    egressPrev, \* the compareEgress call before the last one
    egressLast, \* the last compareEgress query and what it returned
    storageResult,  \* what the last compareStorage call returned
    k8sResult,      \* what the last compareKubernetes call returned
    workloadResult  \* what the last call of the cost calculator returned

cacheVars == <<cache, now, lastOp, lastSet>>

fetchVars == <<calls>>

engineVars == <<bundled, computeResult, egressPrev, egressLast,
                storageResult, k8sResult, workloadResult>>

vars == <<cache, now, lastOp, lastSet, calls,
          bundled, computeResult, egressPrev, egressLast,
          storageResult, k8sResult, workloadResult>>

----------------------------------------------------------------------------
(* Bounds *)

MaxMinute == 0      \* clock readings go up to this many minutes past a mark
MaxTTL == 1         \* explicit ttlMinutes arguments are 0..MaxTTL

----------------------------------------------------------------------------
(* Program constants *)

MsPerMinute == 60 * 1000

DefaultTTLMinutes == 60

\* milliseconds past the minute at which the clock is read
MsOffsets == {0, 1}

Null == <<>>

Some(v) == <<v>>

Keys == {"k1", "k2"}

Values == {"a", "b"}

\* ttlMinutes?: number  -- absent (Null) or an explicit number of minutes
TTLArgs == {Null} \cup {Some(t) : t \in 0..MaxTTL}

\* The clock readings the model visits: a few minutes and milliseconds after
\* start-up and after the default TTL has gone by.
TimePoints ==
    {(b + m) * MsPerMinute + e :
        b \in {0, DefaultTTLMinutes}, m \in 0..MaxMinute, e \in MsOffsets}

----------------------------------------------------------------------------
(* PricingCache *)

\* constructor(defaultTTLMinutes = 60): this.defaultTTL in milliseconds
defaultTTL == DefaultTTLMinutes * 60 * 1000

\* Map.delete
MapDelete(c, key) == [k \in DOMAIN c \ {key} |-> c[k]]

\* Map.set
MapSet(c, key, entry) ==
    [k \in DOMAIN c \cup {key} |-> IF k = key THEN entry ELSE c[k]]

\* get that answers null for an expired entry but leaves it in the Map
get_NoEvict(c, t, key) ==
    IF key \notin DOMAIN c \/ t > c[key].expiresAt
    THEN [ret |-> Null, cache |-> c]
    ELSE [ret |-> Some(c[key].data), cache |-> c]

\* get<T>(key): T | null, with the eviction it performs
\* get that renews the entry it returns for the time it was set for
get_Sliding(c, t, key) ==
    IF key \notin DOMAIN c
    THEN [ret |-> Null, cache |-> c]
    ELSE IF t > c[key].expiresAt
         THEN [ret |-> Null, cache |-> MapDelete(c, key)]
         ELSE [ret |-> Some(c[key].data),
               cache |-> [c EXCEPT ![key].expiresAt =
                              t + (c[key].expiresAt - c[key].timestamp)]]

get(c, t, key) ==
    IF key \notin DOMAIN c
    THEN [ret |-> Null, cache |-> c]
    ELSE IF t > c[key].expiresAt
         THEN [ret |-> Null, cache |-> MapDelete(c, key)]
         ELSE [ret |-> Some(c[key].data), cache |-> c]

\* the ttl expression of set: `ttlMinutes ? ttlMinutes * 60 * 1000 : defaultTTL`
\* (0 and undefined are both falsy)
ttlOf(ttlMinutes) ==
    IF ttlMinutes # Null /\ ttlMinutes[1] # 0
    THEN ttlMinutes[1] * 60 * 1000
    ELSE defaultTTL

\* set that replaces the data of a key already held but keeps its old expiry
set_KeepExpiry(c, t, key, data, ttlMinutes) ==
    MapSet(c, key, [data |-> data, timestamp |-> t,
                    expiresAt |-> IF key \in DOMAIN c THEN c[key].expiresAt
                                  ELSE t + ttlOf(ttlMinutes)])

\* set<T>(key, data, ttlMinutes?)
set(c, t, key, data, ttlMinutes) ==
    MapSet(c, key, [data |-> data, timestamp |-> t,
                    expiresAt |-> t + ttlOf(ttlMinutes)])

\* has(key): get(key) !== null, eviction included
has(c, t, key) ==
    LET g == get(c, t, key) IN [ret |-> g.ret # Null, cache |-> g.cache]

\* delete(key): boolean
delete(c, key) == [ret |-> key \in DOMAIN c, cache |-> MapDelete(c, key)]

\* clear()
clear(c) == [k \in {} |-> Null]

\* cleanExpired()
cleanExpired(c, t) == [k \in {x \in DOMAIN c : ~(t > c[x].expiresAt)} |-> c[k]]

\* getStats that counts the Map as it stands, without the cleanup pass
getStats_NoClean(c, t) ==
    [ret |-> [size |-> Cardinality(DOMAIN c), keys |-> DOMAIN c], cache |-> c]

\* getStats(): { size, keys }
getStats(c, t) ==
    LET cleaned == cleanExpired(c, t)
    IN [ret |-> [size |-> Cardinality(DOMAIN cleaned), keys |-> DOMAIN cleaned],
        cache |-> cleaned]

----------------------------------------------------------------------------
(* The cache driven by an arbitrary caller *)

NoOp == [op |-> "none"]

\* how a key stands in the store at a given time
Standing(c, t, key) ==
    IF key \notin DOMAIN c THEN "absent"
    ELSE IF t > c[key].expiresAt THEN "expired" ELSE "fresh"

CacheInit ==
    /\ cache = clear(<<>>)
    /\ now = 0
    /\ lastOp = NoOp
    /\ lastSet = [k \in Keys |-> Null]

Get(key) ==
    LET g == get(cache, now, key)
    IN /\ cache' = g.cache
       /\ lastOp' = [op |-> "get", key |-> key, ret |-> g.ret,
                     pre |-> Standing(cache, now, key)]
       /\ UNCHANGED <<now, lastSet, fetchVars, engineVars>>

Set(key, data, ttlMinutes) ==
    /\ cache' = set(cache, now, key, data, ttlMinutes)
    /\ lastOp' = [op |-> "set", key |-> key]
    /\ lastSet' = [lastSet EXCEPT
                     ![key] = Some([data |-> data, at |-> now, ttl |-> ttlMinutes,
                                     over |-> /\ Standing(cache, now, key) = "fresh"
                                              /\ cache[key].data # data])]
    /\ UNCHANGED <<now, fetchVars, engineVars>>

Has(key) ==
    LET h == has(cache, now, key)
    IN /\ cache' = h.cache
       /\ lastOp' = [op |-> "has", key |-> key, ret |-> h.ret,
                     pre |-> Standing(cache, now, key)]
       /\ UNCHANGED <<now, lastSet, fetchVars, engineVars>>

Delete(key) ==
    LET d == delete(cache, key)
    IN /\ cache' = d.cache
       /\ lastOp' = [op |-> "delete", key |-> key, ret |-> d.ret]
       /\ lastSet' = [lastSet EXCEPT ![key] = Null]
       /\ UNCHANGED <<now, fetchVars, engineVars>>

Clear ==
    /\ cache' = clear(cache)
    /\ lastOp' = [op |-> "clear"]
    /\ lastSet' = [k \in Keys |-> Null]
    /\ UNCHANGED <<now, fetchVars, engineVars>>

GetStats ==
    LET s == getStats(cache, now)
    IN /\ cache' = s.cache
       /\ lastOp' = [op |-> "getStats", ret |-> s.ret,
                     fresh |-> {k \in Keys : Standing(cache, now, k) = "fresh"},
                     stale |-> {k \in Keys : Standing(cache, now, k) = "expired"}]
       /\ UNCHANGED <<now, lastSet, fetchVars, engineVars>>

\* time passes between two calls
Tick ==
    /\ \E t \in TimePoints : t > now /\ now' = t
    /\ lastOp' = NoOp
    /\ UNCHANGED <<cache, lastSet, fetchVars, engineVars>>

----------------------------------------------------------------------------
(* Real-time fetchers: async functions run by concurrent callers on the      *)
(* event loop. Each step below is one synchronous stretch between awaits.    *)

Callers == {"c1", "c2"}

CACHE_TTL_MINUTES == 60

OCI_TTL_MINUTES == 5

\* the answers the upstream feed may give to a request
Feeds == {"a", "b"}


Fetchers == {"fetchAWSEC2Pricing", "fetchAWSRDSPricing", "fetchGCPComputePricing",
             "fetchAzureVantagePricing", "fetchOCIRealTimePricing"}

\* the calls the callers of the model make: a fetcher and its options?.region
\* (or currency), left out or given
CallsMade == {<<"fetchAWSEC2Pricing", Null>>,
              <<"fetchAWSEC2Pricing", Some("us-east-1")>>,
              <<"fetchOCIRealTimePricing", Null>>}

\* `options?.region || 'us-east-1'` and its likes
regionOf(f, options) ==
    IF options # Null THEN options[1]
    ELSE CASE f = "fetchAWSEC2Pricing" -> "us-east-1"
           [] f = "fetchAWSRDSPricing" -> "us-east-1"
           [] f = "fetchGCPComputePricing" -> "us-central1"
           [] f = "fetchAzureVantagePricing" -> "us-east"
           [] f = "fetchOCIRealTimePricing" -> "USD"

\* fetchers keyed like the loader: `${PROVIDER}_PRICING`
cacheKey_LikeLoader(f, options) ==
    CASE f \in {"fetchAWSEC2Pricing", "fetchAWSRDSPricing"} -> "AWS_PRICING"
      [] f = "fetchGCPComputePricing" -> "GCP_PRICING"
      [] f = "fetchAzureVantagePricing" -> "AZURE_PRICING"
      [] f = "fetchOCIRealTimePricing" -> "OCI_PRICING"

\* const cacheKey = `${CACHE_KEY}_${region}` (the RDS key also carries the
\* engine, 'PostgreSQL' unless given)
cacheKey(f, options) ==
    (CASE f = "fetchAWSEC2Pricing" -> "AWS_EC2_REALTIME"
       [] f = "fetchAWSRDSPricing" -> "AWS_RDS_REALTIME"
       [] f = "fetchGCPComputePricing" -> "GCP_COMPUTE_REALTIME"
       [] f = "fetchAzureVantagePricing" -> "AZURE_VANTAGE_REALTIME"
       [] f = "fetchOCIRealTimePricing" -> "oci_realtime")
    \o "_" \o regionOf(f, options)
    \o (IF f = "fetchAWSRDSPricing" THEN "_PostgreSQL" ELSE "")

\* every fetcher passing CACHE_TTL_MINUTES
fetcherTTL_AllSixty(f) == CACHE_TTL_MINUTES

\* the ttl each fetcher passes to pricingCache.set
fetcherTTL(f) ==
    IF f = "fetchOCIRealTimePricing" THEN OCI_TTL_MINUTES ELSE CACHE_TTL_MINUTES

\* a fetcher head that goes to the upstream without looking at the cache
checkCache_AlwaysMiss(c, t, key) == [hit |-> FALSE, ret |-> Null, cache |-> c]

\* the head of every fetcher: `const cached = pricingCache.get(cacheKey);
\* if (cached) return {...cached, source: 'cache'}`, else go on to fetch(URL)
checkCache(c, t, key) ==
    LET g == get(c, t, key)
    IN [hit |-> g.ret # Null, ret |-> g.ret, cache |-> g.cache]

\* the tail of every fetcher: pricingCache.set(cacheKey, instances, ttl)
storeFetched(c, t, f, key, data) == set(c, t, key, data, Some(fetcherTTL(f)))

FetchTimePoints ==
    {b * MsPerMinute + e :
        b \in {OCI_TTL_MINUTES, CACHE_TTL_MINUTES}, e \in MsOffsets} \cup {0}

\* a caller's record; cleared is kept for the properties only: the cache has
\* been cleared since the caller's request went out
Idle == [pc |-> "idle", fetcher |-> "", key |-> "", ret |-> Null, overlap |-> {},
         cleared |-> FALSE]

\* the value a call wrote to the cache, if it wrote one
Wrote(call) ==
    IF call.ret # Null /\ call.ret[1].source = "upstream"
    THEN Some(call.ret[1].data) ELSE Null

InFlight(call) == call.pc \in {"awaitFetch", "awaitJson"}

FetchInit ==
    /\ cache = clear(<<>>)
    /\ now = 0
    /\ calls = [p \in Callers |-> Idle]

\* a caller calls fetcher f: the cache check and, on a miss, the request
CallFetcher(p, f, options) ==
    LET key == cacheKey(f, options)
        chk == checkCache(cache, now, key)
        others == {q \in Callers \ {p} : InFlight(calls[q]) /\ calls[q].key = key}
    IN /\ ~InFlight(calls[p])
       /\ cache' = chk.cache
       /\ IF chk.hit
          THEN calls' = [q \in Callers |->
                    IF q = p
                    THEN [pc |-> "returned", fetcher |-> f, key |-> key,
                          ret |-> Some([data |-> chk.ret[1], source |-> "cache"]),
                          overlap |-> {}, cleared |-> FALSE]
                    ELSE [calls[q] EXCEPT !.overlap = @ \ {p}]]
          ELSE calls' = [q \in Callers |->
                    IF q = p
                    THEN [pc |-> "awaitFetch", fetcher |-> f, key |-> key,
                          ret |-> Null, overlap |-> others,
                          cleared |-> FALSE]
                    ELSE IF q \in others
                         THEN [calls[q] EXCEPT !.overlap = @ \cup {p}]
                         ELSE [calls[q] EXCEPT !.overlap = @ \ {p}]]
       /\ UNCHANGED <<now, lastOp, lastSet, engineVars>>

\* `await fetch(URL)` resolves with response.ok
ResponseArrives(p) ==
    /\ calls[p].pc = "awaitFetch"
    /\ calls' = [calls EXCEPT ![p].pc = "awaitJson"]
    /\ UNCHANGED <<cache, now, lastOp, lastSet, engineVars>>

\* fetch rejects, the status is not ok, or the body does not parse: the
\* fetcher throws and nothing is cached
FetchFails(p) ==
    /\ InFlight(calls[p])
    /\ calls' = [q \in Callers |->
                   IF q = p THEN [Idle EXCEPT !.pc = "failed"]
                   ELSE [calls[q] EXCEPT !.overlap = @ \ {p}]]
    /\ UNCHANGED <<cache, now, lastOp, lastSet, engineVars>>

\* `await response.json()` resolves with the feed's answer; the fetcher
\* transforms it, caches it and returns it
BodyParsed(p, data) ==
    /\ calls[p].pc = "awaitJson"
    /\ cache' = storeFetched(cache, now, calls[p].fetcher, calls[p].key, data)
    /\ calls' = [calls EXCEPT
                   ![p].pc = "returned",
                   ![p].ret = Some([data |-> data, source |-> "upstream"])]
    /\ UNCHANGED <<now, lastOp, lastSet, engineVars>>

\* refreshAllCache(): pricingCache.clear()
RefreshAllCache ==
    /\ cache' = clear(cache)
    /\ calls' = [q \in Callers |->
                   IF InFlight(calls[q]) THEN [calls[q] EXCEPT !.cleared = TRUE]
                   ELSE calls[q]]
    /\ UNCHANGED <<now, lastOp, lastSet, engineVars>>

FetchTick ==
    /\ \E t \in FetchTimePoints : t > now /\ now' = t
    /\ UNCHANGED <<cache, lastOp, lastSet, calls, engineVars>>

----------------------------------------------------------------------------
(* Provider data access (src/data/loader.ts): bundled data read through the  *)
(* cache. Every operator takes the cache and the clock and returns its       *)
(* result together with the cache it leaves.                                 *)

Providers == <<"aws", "azure", "gcp", "oci">>

ProviderSet == {Providers[i] : i \in DOMAIN Providers}

\* provider.toUpperCase()
toUpperCase(provider) ==
    CASE provider = "aws" -> "AWS"
      [] provider = "azure" -> "AZURE"
      [] provider = "gcp" -> "GCP"
      [] provider = "oci" -> "OCI"
      [] provider = "ibm" -> "IBM"

\* CACHE_KEYS.ALL_COMPUTE
ALL_COMPUTE == "all_compute_instances"

\* loadBundledData(provider): the parsed <provider>-pricing.json; readFileSync
\* throws where there is no such file
loadBundledData(disk, provider) ==
    IF provider \in DOMAIN disk THEN disk[provider]
    ELSE [threw |-> TRUE, message |-> "ENOENT: no such file or directory",
          subject |-> provider \o "-pricing.json", lists |-> {}]

\* `${provider.toUpperCase()}_PRICING`
providerKeyOf(provider) == toUpperCase(provider) \o "_PRICING"

\* getProviderData without its pricingCache.set: the file is read and
\* returned, nothing is stored
cachedOrLoaded_Unstored(cached, t, disk, provider) ==
    IF cached.ret # Null
    THEN [ret |-> cached.ret[1], cache |-> cached.cache]
    ELSE [ret |-> loadBundledData(disk, provider), cache |-> cached.cache]

\* the rest of getProviderData, given what the cache returned: the cached
\* data, or the file read and cached for 24 hours
cachedOrLoaded(cached, t, disk, provider) ==
    IF cached.ret # Null
    THEN [ret |-> cached.ret[1], cache |-> cached.cache]
    ELSE IF provider \notin DOMAIN disk
    THEN [ret |-> loadBundledData(disk, provider), cache |-> cached.cache]
    ELSE [ret |-> loadBundledData(disk, provider),
          cache |-> set(cached.cache, t, providerKeyOf(provider),
                        loadBundledData(disk, provider), Some(60 * 24))]

\* getProviderData(provider)
getProviderData(c, t, disk, provider) ==
    cachedOrLoaded(get(c, t, providerKeyOf(provider)), t, disk, provider)

\* what has been loaded, with one more provider
withProvider(ret, provider, loaded) ==
    [ret |-> ret @@ (provider :> loaded.ret), cache |-> loaded.cache]

\* one more provider loaded on the cache the ones before it have left
addProvider(before, t, disk, provider) ==
    withProvider(before.ret, provider,
                 getProviderData(before.cache, t, disk, provider))

\* the first n providers loaded in turn
RECURSIVE loadProviders(_, _, _, _)
loadProviders(c, t, disk, n) ==
    IF n = 0 THEN [ret |-> <<>>, cache |-> c]
    ELSE addProvider(loadProviders(c, t, disk, n - 1), t, disk, Providers[n])

\* getAllProviderData(): the four providers in turn
getAllProviderData(c, t, disk) == loadProviders(c, t, disk, Len(Providers))

\* [...aws[field], ...azure[field], ...gcp[field], ...oci[field]]
spread(ret, field) ==
    ret.aws[field] \o ret.azure[field] \o ret.gcp[field] \o ret.oci[field]

\* pricingCache.set(key, list, 60); return list
cachedList(c, t, key, list) ==
    [ret |-> list, cache |-> set(c, t, key, list, Some(60))]

\* the lists of the providers joined and cached
spreadOf(allData, t, key, field) ==
    cachedList(allData.cache, t, key, spread(allData.ret, field))

\* the rest of getAllComputeInstances and getAllStorageOptions, given what
\* the cache returned
cachedOrSpread(cached, t, disk, key, field) ==
    IF cached.ret # Null
    THEN [ret |-> cached.ret[1], cache |-> cached.cache]
    ELSE spreadOf(getAllProviderData(cached.cache, t, disk), t, key, field)

\* getAllComputeInstances()
getAllComputeInstances(c, t, disk) ==
    cachedOrSpread(get(c, t, ALL_COMPUTE), t, disk, ALL_COMPUTE, "compute")

\* CACHE_KEYS.ALL_STORAGE
ALL_STORAGE == "all_storage_options"

\* getAllStorageOptions(): as getAllComputeInstances, under ALL_STORAGE
getAllStorageOptions(c, t, disk) ==
    cachedOrSpread(get(c, t, ALL_STORAGE), t, disk, ALL_STORAGE, "storage")

\* getAllKubernetesPricing(): the kubernetes pricing of each provider, Null
\* where a bundle has none
kubernetesOf(allData) ==
    [ret |-> [p \in ProviderSet |-> allData.ret[p].kubernetes],
     cache |-> allData.cache]

getAllKubernetesPricing(c, t, disk) ==
    kubernetesOf(getAllProviderData(c, t, disk))

\* [aws.egress, azure.egress, gcp.egress, oci.egress]
egressOf(allData) ==
    [ret |-> <<allData.ret.aws.egress, allData.ret.azure.egress,
               allData.ret.gcp.egress, allData.ret.oci.egress>>,
     cache |-> allData.cache]

\* getAllEgressPricing()
getAllEgressPricing(c, t, disk) == egressOf(getAllProviderData(c, t, disk))

----------------------------------------------------------------------------
(* Comparison engine: compareCompute.                                        *)
(* monthlyPrice is in cents; vcpus and memoryGB are whole numbers, and the   *)
(* window bounds v * 0.5 and v * 1.5 are kept doubled (v and 3v) and set     *)
(* against the doubled value of the instance.                                *)

\* matches.slice(0, 20)
MaxMatches == 20

RECURSIVE InsertByPrice(_, _)

\* an insertion that puts x before the elements of equal price
InsertByPrice_BeforeEqual(sorted, x) ==
    IF sorted = <<>> THEN <<x>>
    ELSE IF Head(sorted).monthlyPrice - x.monthlyPrice >= 0
         THEN <<x>> \o sorted
         ELSE <<Head(sorted)>> \o InsertByPrice(Tail(sorted), x)

\* where x goes in a list sorted by price: before the first element dearer
\* than it, so after the elements of equal price (the sort is stable)
InsertByPrice(sorted, x) ==
    IF sorted = <<>> THEN <<x>>
    ELSE IF Head(sorted).monthlyPrice - x.monthlyPrice > 0
         THEN <<x>> \o sorted
         ELSE <<Head(sorted)>> \o InsertByPrice(Tail(sorted), x)

\* matches.sort((a, b) => a.monthlyPrice - b.monthlyPrice)
RECURSIVE sortByPrice(_)
sortByPrice(seq) ==
    IF seq = <<>> THEN <<>>
    ELSE InsertByPrice(sortByPrice(SubSeq(seq, 1, Len(seq) - 1)), seq[Len(seq)])

\* Array.prototype.slice(0, n)
slice(seq, n) == SubSeq(seq, 1, IF Len(seq) < n THEN Len(seq) ELSE n)

\* `query.vcpus || 0`
orZero(x) == IF x = Null THEN 0 ELSE x[1]

\* a window whose upper bounds are exclusive
windowMatch_Strict(instance, vcpus, memoryGB) ==
    /\ 2 * instance.vcpus >= vcpus /\ 2 * instance.vcpus < 3 * vcpus
    /\ 2 * instance.memoryGB >= memoryGB /\ 2 * instance.memoryGB < 3 * memoryGB

\* the filter of compareCompute: vcpus within [v * 0.5, v * 1.5] and
\* memoryGB within [m * 0.5, m * 1.5]
windowMatch(instance, vcpus, memoryGB) ==
    LET vcpuMatch == 2 * instance.vcpus >= vcpus /\ 2 * instance.vcpus <= 3 * vcpus
        memMatch == 2 * instance.memoryGB >= memoryGB
                    /\ 2 * instance.memoryGB <= 3 * memoryGB
    IN vcpuMatch /\ memMatch

\* the category filter: 'arm' filters by architecture
categoryMatch(instance, category) ==
    IF category = Null THEN TRUE
    ELSE IF category[1] = "arm" THEN instance.architecture = "arm"
         ELSE instance.category = category[1]

\* allInstances.filter(instance => vcpuMatch && memMatch)
RECURSIVE filterWindow(_, _, _)
filterWindow(seq, vcpus, memoryGB) ==
    IF seq = <<>> THEN <<>>
    ELSE IF windowMatch(Head(seq), vcpus, memoryGB)
         THEN <<Head(seq)>> \o filterWindow(Tail(seq), vcpus, memoryGB)
         ELSE filterWindow(Tail(seq), vcpus, memoryGB)

\* matches.filter(i => ...) of the category filter
RECURSIVE filterCategory(_, _)
filterCategory(seq, category) ==
    IF seq = <<>> THEN <<>>
    ELSE IF categoryMatch(Head(seq), category)
         THEN <<Head(seq)>> \o filterCategory(Tail(seq), category)
         ELSE filterCategory(Tail(seq), category)

\* matches.find(i => i.provider === provider): the first such match, or null
RECURSIVE findProvider(_, _)
findProvider(seq, provider) ==
    IF seq = <<>> THEN Null
    ELSE IF Head(seq).provider = provider THEN Some(Head(seq))
         ELSE findProvider(Tail(seq), provider)

\* Math.round(n / d): the nearest integer, halves upward; n / 0 is NaN or
\* an infinity
mathRound(n, d) ==
    IF d = 0 THEN (IF n = 0 THEN "NaN" ELSE IF n > 0 THEN "Infinity" ELSE "-Infinity")
    ELSE IF d > 0 THEN (2 * n + d) \div (2 * d)
         ELSE (2 * (-n) + (-d)) \div (2 * (-d))

\* savings that start at 0 instead of undefined
savingsVsAWS_ZeroDefault(cheapest, awsInstance) ==
    IF cheapest # Null /\ awsInstance # Null /\ cheapest[1].provider # "aws"
    THEN Some(mathRound(
            (awsInstance[1].monthlyPrice - cheapest[1].monthlyPrice) * 100,
            awsInstance[1].monthlyPrice))
    ELSE Some(0)

\* savingsVsAWS: undefined unless the cheapest is not AWS and an AWS match exists
savingsVsAWS(cheapest, awsInstance) ==
    IF cheapest # Null /\ awsInstance # Null /\ cheapest[1].provider # "aws"
    THEN Some(mathRound(
            (awsInstance[1].monthlyPrice - cheapest[1].monthlyPrice) * 100,
            awsInstance[1].monthlyPrice))
    ELSE Null

\* compareCompute(query), given the list getAllComputeInstances returned
compareCompute(allInstances, query) ==
    LET vcpus == orZero(query.vcpus)
        memoryGB == orZero(query.memoryGB)
        matches == sortByPrice(filterCategory(
                       filterWindow(allInstances, vcpus, memoryGB), query.category))
        cheapest == IF Len(matches) > 0 THEN Some(matches[1]) ELSE Null
        awsInstance == findProvider(matches, "aws")
    IN [query |-> query,
        matches |-> slice(matches, MaxMatches),
        cheapest |-> cheapest,
        found |-> Len(matches),     \* `Found ${matches.length} matching instances`
        savingsVsAWS |-> savingsVsAWS(cheapest, awsInstance)]

\* whether the array compareCompute sorts in place (matches.sort) is the array
\* the cache holds: getAllComputeInstances returns the cached array itself,
\* allInstances.filter(...) makes a new one, and so does the category filter
computeSortsCached(query) ==
    LET filtered == FALSE
        matches == IF query.category # Null THEN FALSE ELSE filtered
    IN matches

\* the cache after compareCompute: an array sorted in place that is the cached
\* one leaves the cached list in the order of the sort
leaveCompute(c, query) ==
    IF computeSortsCached(query)
    THEN [c EXCEPT ![ALL_COMPUTE].data = sortByPrice(@)]
    ELSE c

----------------------------------------------------------------------------
(* compareCompute called on bundled catalogs *)

MaxV == 4           \* query.vcpus is left out or 0..MaxV
MaxM == 4           \* query.memoryGB is left out or 0..MaxM

Inst(provider, name, vcpus, memoryGB, monthlyPrice, category, architecture) ==
    [provider |-> provider, name |-> name, vcpus |-> vcpus,
     memoryGB |-> memoryGB, monthlyPrice |-> monthlyPrice,
     category |-> category, architecture |-> architecture]

\* the sequences of at most two distinct elements of a set
ListsOver(pool) ==
    {<<>>} \cup {<<x>> : x \in pool}
           \cup {<<xy[1], xy[2]>> : xy \in {p \in pool \X pool : p[1] # p[2]}}

AwsPool ==
    {Inst("aws", "a1", 2, 3, 200, "general", "x86"),
     Inst("aws", "a2", 3, 6, 300, "compute", "arm"),
     Inst("aws", "a3", 2, 3, 0, "general", "x86"),
     Inst("aws", "a4", 2, 3, 900, "general", "x86")}

OciPool ==
    {Inst("oci", "o1", 2, 3, 199, "general", "x86"),
     Inst("oci", "o2", 3, 6, 100, "compute", "arm"),
     Inst("oci", "o3", 2, 3, 200, "general", "arm")}

AzureLists ==
    {<<>>,
     <<Inst("azure", "z1", 0, 0, 100, "general", "x86"),
       Inst("azure", "z2", 1, 2, 50, "general", "x86")>>}

\* a catalog of more instances of one shape than compareCompute returns, with
\* prices out of order and repeated
GcpLong ==
    [i \in 1..(MaxMatches + 1) |->
        Inst("gcp", "g" \o ToString(i), 2, 3, 400 + ((i * 3) % 7) * 10,
             "general", "x86")]

GcpLists == {<<>>, GcpLong}

\* the egress pricing of the bundles when egress is not what is looked at:
\* 100 GB free, then $0.09 per GB up to 10240 GB and $0.05 beyond
\* (pricePerGB in thousandths of a dollar)
PlainEgress ==
    [freeGBPerMonth |-> 100,
     tiers |-> <<[upToGB |-> 10240, pricePerGB |-> 90],
                 [upToGB |-> -1, pricePerGB |-> 50]>>]

Bundle(provider, compute, egress) ==
    [provider |-> provider, compute |-> compute,
     storage |-> <<>>, kubernetes |-> Null,
     egress |-> [provider |-> provider,
                 freeGBPerMonth |-> egress.freeGBPerMonth,
                 tiers |-> egress.tiers]]

ComputeQueries ==
    [vcpus : {Null} \cup {Some(v) : v \in 0..MaxV},
     memoryGB : {Null} \cup {Some(m) : m \in 0..MaxM},
     category : {Null, Some("general"), Some("arm")}]

EngineIdle ==
    /\ computeResult = Null
    /\ egressPrev = Null
    /\ egressLast = Null
    /\ storageResult = Null
    /\ k8sResult = Null
    /\ workloadResult = Null

InitCompute ==
    /\ cache = clear(<<>>)
    /\ now = 0
    /\ lastOp = NoOp
    /\ lastSet = [k \in Keys |-> Null]
    /\ calls = [p \in Callers |-> Idle]
    /\ \E a \in ListsOver(AwsPool), z \in AzureLists,
          g \in GcpLists, o \in ListsOver(OciPool) :
          bundled = [aws |-> Bundle("aws", a, PlainEgress),
                     azure |-> Bundle("azure", z, PlainEgress),
                     gcp |-> Bundle("gcp", g, PlainEgress),
                     oci |-> Bundle("oci", o, PlainEgress)]
    /\ EngineIdle

\* a call of compareCompute(query): the catalog is read through the cache
CompareCompute(query) ==
    LET all == getAllComputeInstances(cache, now, bundled)
    IN /\ computeResult = Null
       /\ cache' = leaveCompute(all.cache, query)
       /\ computeResult' = Some(compareCompute(all.ret, query))
       /\ UNCHANGED <<now, lastOp, lastSet, calls, bundled, egressPrev, egressLast,
                    storageResult, k8sResult, workloadResult>>

\* the caller has taken the result; the next query may come
ComputeAnswered ==
    /\ computeResult # Null
    /\ computeResult' = Null
    /\ UNCHANGED <<cacheVars, calls, bundled, egressPrev, egressLast,
                    storageResult, k8sResult, workloadResult>>

NextCompute ==
    \/ \E q \in ComputeQueries : CompareCompute(q)
    \/ ComputeAnswered
    \/ RefreshAllCache

\* compareCompute over the bundled catalogs
SpecCompute == InitCompute /\ [][NextCompute]_vars

----------------------------------------------------------------------------
(* Comparison engine: compareEgress.                                         *)
(* Volumes are whole GB, pricePerGB is in thousandths of a dollar, so a      *)
(* monthlyCost is in thousandths of a dollar. The breakdown string is kept   *)
(* as the two numbers it prints; the summary string is left out.             *)

MaxFree == 2
MaxVolume == 4

RECURSIVE tierWalk(_, _, _, _)
RECURSIVE InsertByCost(_, _)

\* const billableGB = query.monthlyGB - freeGBPerMonth, the allowance ignored
billableGB_NoFree(monthlyGB, freeGBPerMonth) == monthlyGB

\* const billableGB = Math.max(0, query.monthlyGB - freeGBPerMonth)
billableGB(monthlyGB, freeGBPerMonth) ==
    IF monthlyGB - freeGBPerMonth > 0 THEN monthlyGB - freeGBPerMonth ELSE 0

RECURSIVE tierWalk_BoundAsRoom(_, _, _, _)

\* the tier loop with Math.min(remainingGB, tier.upToGB) for a finite tier
tierWalk_BoundAsRoom(tiers, freeGBPerMonth, remainingGB, monthlyCost) ==
    IF tiers = <<>> \/ remainingGB <= 0
    THEN monthlyCost
    ELSE LET tier == Head(tiers)
             gbInTier == IF tier.upToGB = -1 THEN remainingGB
                         ELSE IF remainingGB < tier.upToGB THEN remainingGB
                              ELSE tier.upToGB
         IN IF gbInTier > 0
            THEN tierWalk_BoundAsRoom(Tail(tiers), freeGBPerMonth,
                                      remainingGB - gbInTier,
                                      monthlyCost + gbInTier * tier.pricePerGB)
            ELSE tierWalk_BoundAsRoom(Tail(tiers), freeGBPerMonth,
                                      remainingGB, monthlyCost)

\* for (const tier of tiers) { if (remainingGB <= 0) break; ... }
tierWalk(tiers, freeGBPerMonth, remainingGB, monthlyCost) ==
    IF tiers = <<>> \/ remainingGB <= 0
    THEN monthlyCost
    ELSE LET tier == Head(tiers)
             room == tier.upToGB - freeGBPerMonth
             gbInTier == IF tier.upToGB = -1 THEN remainingGB
                         ELSE IF remainingGB < room THEN remainingGB ELSE room
         IN IF gbInTier > 0
            THEN tierWalk(Tail(tiers), freeGBPerMonth, remainingGB - gbInTier,
                          monthlyCost + gbInTier * tier.pricePerGB)
            ELSE tierWalk(Tail(tiers), freeGBPerMonth, remainingGB, monthlyCost)

\* the gbInTier of each tier in the loop, in list order: 0 for a tier that
\* takes nothing or is not reached
RECURSIVE gbInTiers(_, _, _)
gbInTiers(tiers, freeGBPerMonth, remainingGB) ==
    IF tiers = <<>> THEN <<>>
    ELSE IF remainingGB <= 0
    THEN <<0>> \o gbInTiers(Tail(tiers), freeGBPerMonth, remainingGB)
    ELSE LET tier == Head(tiers)
             room == tier.upToGB - freeGBPerMonth
             gbInTier == IF tier.upToGB = -1 THEN remainingGB
                         ELSE IF remainingGB < room THEN remainingGB ELSE room
         IN IF gbInTier > 0
            THEN <<gbInTier>> \o gbInTiers(Tail(tiers), freeGBPerMonth,
                                           remainingGB - gbInTier)
            ELSE <<0>> \o gbInTiers(Tail(tiers), freeGBPerMonth, remainingGB)

\* the breakdown string: `${free}GB free`, and for a billable volume above
\* 0 `, ${billableGB}GB billed at tiered rates`
breakdownOf(freeGBPerMonth, billable) ==
    [freeGB |-> freeGBPerMonth,
     billedAtTieredRates |-> IF billable > 0 THEN Some(billable) ELSE Null]

\* the estimate of one provider: return { provider, monthlyCost, breakdown }
estimate(egress, monthlyGB) ==
    [provider |-> egress.provider,
     monthlyCost |-> tierWalk(egress.tiers, egress.freeGBPerMonth,
                              billableGB(monthlyGB, egress.freeGBPerMonth), 0),
     breakdown |-> breakdownOf(egress.freeGBPerMonth,
                               billableGB(monthlyGB, egress.freeGBPerMonth))]

\* estimates.sort((a, b) => a.monthlyCost - b.monthlyCost): a stable sort,
\* as an insertion after the estimates that do not cost more
InsertByCost(sorted, e) ==
    IF sorted = <<>> THEN <<e>>
    ELSE IF Head(sorted).monthlyCost <= e.monthlyCost
         THEN <<Head(sorted)>> \o InsertByCost(Tail(sorted), e)
         ELSE <<e>> \o sorted

sortByCost(estimates) ==
    LET RECURSIVE go(_, _)
        go(done, rest) == IF rest = <<>> THEN done
                          ELSE go(InsertByCost(done, Head(rest)), Tail(rest))
    IN go(<<>>, estimates)

RECURSIVE InsertByKey(_, _, _)
RECURSIVE sortByKey(_, _)

\* estimates.sort((a, b) => a[key] - b[key]): a stable sort, as an insertion
\* after the elements that are not greater
InsertByKey(sorted, e, key) ==
    IF sorted = <<>> THEN <<e>>
    ELSE IF Head(sorted)[key] - e[key] > 0
         THEN <<e>> \o sorted
         ELSE <<Head(sorted)>> \o InsertByKey(Tail(sorted), e, key)

sortByKey(seq, key) ==
    IF seq = <<>> THEN <<>>
    ELSE InsertByKey(sortByKey(SubSeq(seq, 1, Len(seq) - 1), key),
                     seq[Len(seq)], key)

\* compareEgress(query) over the egress pricing the loader returned
compareEgress(allEgress, monthlyGB) ==
    LET estimates == sortByCost([i \in 1..Len(allEgress) |->
                                     estimate(allEgress[i], monthlyGB)])
    IN [query |-> monthlyGB,
        estimates |-> estimates,
        cheapest |-> estimates[1].provider]

\* tiers of a provider's egress pricing: a bound in GB (-1: none) and a price
TierPool == [upToGB : {-1, 2, 4}, pricePerGB : {0, 1, 2}]

TierLists == {<<>>} \cup {<<t>> : t \in TierPool} \cup (TierPool \X TierPool)

EgressConfigs == [freeGBPerMonth : 0..MaxFree, tiers : TierLists]

\* the volumes asked for: small ones around the allowances and tier bounds,
\* and two that cross the first tier of PlainEgress
Volumes == 0..MaxVolume \cup {10000, 20000}

\* one provider's egress pricing is arbitrary, the others' are PlainEgress
InitEgress ==
    /\ cache = clear(<<>>)
    /\ now = 0
    /\ lastOp = NoOp
    /\ lastSet = [k \in Keys |-> Null]
    /\ calls = [p \in Callers |-> Idle]
    /\ \E own \in ProviderSet, e \in EgressConfigs :
          bundled = [p \in ProviderSet |->
                        Bundle(p, <<>>, IF p = own THEN e ELSE PlainEgress)]
    /\ EngineIdle

\* a call of compareEgress(query): the pricing is read through the cache
CompareEgress(monthlyGB) ==
    LET all == getAllEgressPricing(cache, now, bundled)
    IN /\ cache' = all.cache
       /\ egressPrev' = egressLast
       /\ egressLast' = Some(compareEgress(all.ret, monthlyGB))
       /\ UNCHANGED <<now, lastOp, lastSet, calls, bundled, computeResult,
                      storageResult, k8sResult, workloadResult>>

NextEgress ==
    \/ \E q \in Volumes : CompareEgress(q)
    \/ RefreshAllCache

\* compareEgress over the bundled egress pricing
SpecEgress == InitEgress /\ [][NextEgress]_vars

----------------------------------------------------------------------------
(* Comparison engine: compareStorage.                                        *)
(* pricePerGBMonth is in thousandths of a dollar and sizeGB a whole number.  *)
(* The summary string is left out.                                           *)

MaxSize == 2

\* the first record of a list with this provider and name, if any
findStorage(matches, provider, name) ==
    LET hits == SelectSeq(matches,
                          LAMBDA r : r.provider = provider /\ r.name = name)
    IN IF hits = <<>> THEN Null ELSE Some(Head(hits))

\* the first estimate of a list for this provider, if any
findEstimate(estimates, provider) ==
    LET hits == SelectSeq(estimates, LAMBDA e : e.provider = provider)
    IN IF hits = <<>> THEN Null ELSE Some(Head(hits))

\* const cheapest = monthlyEstimates[0]'s record, looked up by provider only
cheapestStorage_ByProvider(matches, monthlyEstimates) ==
    IF monthlyEstimates = <<>> THEN Null
    ELSE LET hits == SelectSeq(matches,
                     LAMBDA r : r.provider = monthlyEstimates[1].provider)
         IN IF hits = <<>> THEN Null ELSE Some(Head(hits))

\* const cheapest = cheapestEstimate ? matches.find(...) || null : null
cheapestStorage(matches, monthlyEstimates) ==
    IF monthlyEstimates = <<>> THEN Null
    ELSE findStorage(matches, monthlyEstimates[1].provider,
                     monthlyEstimates[1].name)

\* compareStorage(query) over the storage options the loader returned
compareStorage(allStorage, query) ==
    LET byTier == IF query.tier # Null
                  THEN SelectSeq(allStorage, LAMBDA r : r.tier = query.tier[1])
                  ELSE allStorage
        matches == IF query.type # Null
                   THEN SelectSeq(byTier, LAMBDA r : r.type = query.type[1])
                   ELSE byTier
        monthlyEstimates ==
            sortByCost([i \in 1..Len(matches) |->
                [provider |-> matches[i].provider,
                 name |-> matches[i].name,
                 monthlyCost |-> matches[i].pricePerGBMonth * query.sizeGB]])
    IN [query |-> query,
        matches |-> slice(matches, MaxMatches),
        cheapest |-> cheapestStorage(matches, monthlyEstimates),
        monthlyEstimates |-> slice(monthlyEstimates, MaxMatches)]

\* compareStorage sorting `matches` in place instead of the estimates mapped
\* from it
storageSortsCached_Matches(query) ==
    LET allStorage == TRUE
        byTier == IF query.tier # Null THEN FALSE ELSE allStorage
        matches == IF query.type # Null THEN FALSE ELSE byTier
    IN matches

\* whether the array compareStorage sorts in place (monthlyEstimates.sort) is
\* the array the cache holds: `let matches = allStorage` is the cached array
\* until a filter replaces it, matches.map(...) always makes a new one
storageSortsCached(query) ==
    LET allStorage == TRUE
        byTier == IF query.tier # Null THEN FALSE ELSE allStorage
        matches == IF query.type # Null THEN FALSE ELSE byTier
        monthlyEstimates == IF matches THEN FALSE ELSE FALSE   \* a new array
    IN monthlyEstimates

\* the cache after compareStorage: an array sorted in place that is the
\* cached one leaves the cached list cheapest first
leaveStorage(c, query) ==
    IF storageSortsCached(query)
    THEN [c EXCEPT ![ALL_STORAGE].data = sortByKey(@, "pricePerGBMonth")]
    ELSE c

Store(provider, name, type, tier, pricePerGBMonth) ==
    [provider |-> provider, name |-> name, type |-> type, tier |-> tier,
     pricePerGBMonth |-> pricePerGBMonth]

\* storage options of the bundles: names are unique within a provider, as
\* in the bundled data; prices repeat across providers
AwsStorage ==
    {Store("aws", "S3 Standard", "object", "hot", 23),
     Store("aws", "S3 Infrequent Access", "object", "cool", 12),
     Store("aws", "EBS gp3", "block", "hot", 80),
     Store("aws", "EFS Standard", "file", "hot", 300)}

OciStorage ==
    {Store("oci", "Object Storage", "object", "hot", 23),
     Store("oci", "Block Volume", "block", "hot", 25),
     Store("oci", "Archive Storage", "archive", "archive", 3)}

AzureStorageLists ==
    {<<>>,
     <<Store("azure", "Blob Hot", "object", "hot", 18),
       Store("azure", "Blob Cool", "object", "cool", 10)>>}

\* more hot object options than the results carry, prices not in order
GcpStorageLong ==
    [i \in 1..(MaxMatches + 1) |->
        Store("gcp", "g" \o ToString(i), "object", "hot", 30 + ((i * 3) % 7))]

GcpStorageLists == {<<>>, GcpStorageLong}

WithStorage(bundle, storage) == [bundle EXCEPT !.storage = storage]

StorageQueries ==
    [sizeGB : 0..MaxSize,
     tier : {Null, Some("hot"), Some("cool")},
     type : {Null, Some("object"), Some("block")}]

InitStorage ==
    /\ cache = clear(<<>>)
    /\ now = 0
    /\ lastOp = NoOp
    /\ lastSet = [k \in Keys |-> Null]
    /\ calls = [p \in Callers |-> Idle]
    /\ \E a \in ListsOver(AwsStorage), z \in AzureStorageLists,
          g \in GcpStorageLists, o \in ListsOver(OciStorage) :
          bundled = [aws |-> WithStorage(Bundle("aws", <<>>, PlainEgress), a),
                     azure |-> WithStorage(Bundle("azure", <<>>, PlainEgress), z),
                     gcp |-> WithStorage(Bundle("gcp", <<>>, PlainEgress), g),
                     oci |-> WithStorage(Bundle("oci", <<>>, PlainEgress), o)]
    /\ EngineIdle

\* a call of compareStorage(query): the options are read through the cache
CompareStorage(query) ==
    LET all == getAllStorageOptions(cache, now, bundled)
    IN /\ storageResult = Null
       /\ cache' = leaveStorage(all.cache, query)
       /\ storageResult' = Some(compareStorage(all.ret, query))
       /\ UNCHANGED <<now, lastOp, lastSet, calls, bundled, computeResult,
                      egressPrev, egressLast, k8sResult, workloadResult>>

\* the caller has taken the result; the next query may come
StorageAnswered ==
    /\ storageResult # Null
    /\ storageResult' = Null
    /\ UNCHANGED <<cacheVars, calls, bundled, computeResult,
                   egressPrev, egressLast, k8sResult, workloadResult>>

NextStorage ==
    \/ \E q \in StorageQueries : CompareStorage(q)
    \/ StorageAnswered
    \/ RefreshAllCache

\* compareStorage over the bundled storage options
SpecStorage == InitStorage /\ [][NextStorage]_vars

----------------------------------------------------------------------------
(* Comparison engine: compareKubernetes.                                     *)
(* controlPlaneMonthly is in cents, like monthlyPrice. The notes and the     *)
(* summary string are left out.                                              *)

MaxNodes == 2

\* the worker node looked up in every accepted instance, not in the matches
\* compareCompute returns
workerNodeOf_AllAccepted(nodeResult, allInstances, options, provider) ==
    findProvider(sortByPrice(filterWindow(allInstances, options.nodeVcpus,
                                          options.nodeMemoryGB)), provider)

\* const workerNode = nodeResult.matches.find(m => m.provider === provider)
workerNodeOf(nodeResult, allInstances, options, provider) ==
    findProvider(nodeResult.matches, provider)

\* the estimate pushed for a provider that has Kubernetes pricing
k8sEstimate(k8s, nodeResult, allInstances, options, provider) ==
    LET workerNode == workerNodeOf(nodeResult, allInstances, options, provider)
        workerNodeCost == IF workerNode # Null
                          THEN workerNode[1].monthlyPrice * options.nodeCount
                          ELSE 0
    IN [provider |-> provider,
        controlPlaneCost |-> k8s.controlPlaneMonthly,
        workerNodeCost |-> workerNodeCost,
        totalMonthlyCost |-> k8s.controlPlaneMonthly + workerNodeCost]

\* compareKubernetes(options), given what getAllKubernetesPricing and
\* getAllComputeInstances returned; estimates[0].provider of an empty list
\* is a TypeError
compareKubernetes(k8sPricing, allInstances, options) ==
    LET nodeResult == compareCompute(allInstances,
                             [vcpus |-> Some(options.nodeVcpus),
                              memoryGB |-> Some(options.nodeMemoryGB),
                              category |-> Null])
        listed == SelectSeq(Providers, LAMBDA p : k8sPricing[p] # Null)
        estimates == sortByKey(
            [i \in 1..Len(listed) |->
                k8sEstimate(k8sPricing[listed[i]][1], nodeResult,
                            allInstances, options, listed[i])],
            "totalMonthlyCost")
    IN IF estimates = <<>>
       THEN [threw |-> TRUE, estimates |-> <<>>, cheapest |-> Null]
       ELSE [threw |-> FALSE, estimates |-> estimates,
             cheapest |-> Some(estimates[1].provider)]

K8s(provider, controlPlaneMonthly) ==
    Some([provider |-> provider, controlPlaneMonthly |-> controlPlaneMonthly])

\* which providers have Kubernetes pricing, and at what control-plane price
K8sChoices ==
    {[aws |-> K8s("aws", 7300), azure |-> K8s("azure", 0),
      gcp |-> K8s("gcp", 7300), oci |-> K8s("oci", 0)],
     [aws |-> K8s("aws", 7300), azure |-> Null,
      gcp |-> K8s("gcp", 7300), oci |-> K8s("oci", 100)],
     [aws |-> Null, azure |-> Null, gcp |-> Null, oci |-> Null]}

WithKubernetes(bundle, kubernetes) == [bundle EXCEPT !.kubernetes = kubernetes]

OciNodeLists == {<<>>, <<Inst("oci", "o1", 2, 3, 199, "general", "x86")>>}

K8sOptions ==
    [nodeCount : 1..MaxNodes, nodeVcpus : 0..MaxV, nodeMemoryGB : 0..MaxM]

InitK8s ==
    /\ cache = clear(<<>>)
    /\ now = 0
    /\ lastOp = NoOp
    /\ lastSet = [k \in Keys |-> Null]
    /\ calls = [p \in Callers |-> Idle]
    /\ \E a \in ListsOver(AwsPool), g \in GcpLists, o \in OciNodeLists,
          k \in K8sChoices :
          bundled = [aws |-> WithKubernetes(Bundle("aws", a, PlainEgress), k.aws),
                     azure |-> WithKubernetes(Bundle("azure", <<>>, PlainEgress),
                                              k.azure),
                     gcp |-> WithKubernetes(Bundle("gcp", g, PlainEgress), k.gcp),
                     oci |-> WithKubernetes(Bundle("oci", o, PlainEgress), k.oci)]
    /\ EngineIdle

\* the cache after compareKubernetes: what its compareCompute call leaves
leaveKubernetes(c, options) ==
    leaveCompute(c, [vcpus |-> Some(options.nodeVcpus),
                     memoryGB |-> Some(options.nodeMemoryGB),
                     category |-> Null])

\* a call of compareKubernetes(options): pricing and catalog are read
\* through the cache
CompareKubernetes(options) ==
    LET k8sPricing == getAllKubernetesPricing(cache, now, bundled)
        all == getAllComputeInstances(k8sPricing.cache, now, bundled)
    IN /\ k8sResult = Null
       /\ cache' = leaveKubernetes(all.cache, options)
       /\ k8sResult' = Some([options |-> options,
                             ret |-> compareKubernetes(k8sPricing.ret, all.ret,
                                                       options)])
       /\ UNCHANGED <<now, lastOp, lastSet, calls, bundled, computeResult,
                      egressPrev, egressLast, storageResult, workloadResult>>

\* the caller has taken the result; the next call may come
K8sAnswered ==
    /\ k8sResult # Null
    /\ k8sResult' = Null
    /\ UNCHANGED <<cacheVars, calls, bundled, computeResult,
                   egressPrev, egressLast, storageResult, workloadResult>>

NextK8s ==
    \/ \E o \in K8sOptions : CompareKubernetes(o)
    \/ K8sAnswered
    \/ RefreshAllCache

\* compareKubernetes over the bundled pricing and catalogs
SpecK8s == InitK8s /\ [][NextK8s]_vars

----------------------------------------------------------------------------
(* Workload cost calculator: calculateProviderCost, calculateWorkloadCost.   *)
(* `data` is what the loader returns to the comparison functions: compute,   *)
(* storage, egress and k8s. All amounts of the bundles used here are in      *)
(* thousandths of a dollar. A unit price that the code computes by a         *)
(* division is kept as the pair of dividend and divisor. The item strings of *)
(* the lines, the text of the notes and the OCI highlights of the summary    *)
(* are reduced to what tells them apart.                                     *)

Ratio(n, d) == [n |-> n, d |-> d]

Line(category, item, quantity, unitPrice, monthlyTotal) ==
    [category |-> category, item |-> item, quantity |-> quantity,
     unitPrice |-> unitPrice, monthlyTotal |-> monthlyTotal]

NoLines == [breakdown |-> <<>>, notes |-> <<>>]

\* `x` when it is a number other than 0, else the default (x || dflt)
orElse(x, dflt) == IF x = Null \/ x[1] = 0 THEN dflt ELSE x[1]

\* `if (x)` of an optional number
truthy(x) == x # Null /\ x[1] # 0

\* if (spec.compute) { ... }
computeLines(spec, provider, data) ==
    IF spec.compute = Null THEN NoLines
    ELSE LET request == spec.compute[1]
             result == compareCompute(data.compute,
                           [vcpus |-> Some(request.vcpus),
                            memoryGB |-> Some(request.memoryGB),
                            category |-> Null])
             instance == findProvider(result.matches, provider)
             count == orElse(request.count, 1)
         IN IF instance # Null
            THEN [breakdown |->
                     <<Line("Compute", instance[1].name, count,
                            Ratio(instance[1].monthlyPrice, 1),
                            instance[1].monthlyPrice * count)>>,
                  notes |-> <<>>]
            ELSE [breakdown |-> <<>>,
                  notes |-> <<"No matching compute instance found">>]

\* one storage line: compareStorage for the size, type and the hot tier
storageLine(sizeGB, type, provider, data) ==
    LET result == compareStorage(data.storage,
                      [sizeGB |-> sizeGB, type |-> Some(type),
                       tier |-> Some("hot")])
        option == findEstimate(result.monthlyEstimates, provider)
    IN IF option # Null
       THEN <<Line("Storage", type, sizeGB,
                   Ratio(option[1].monthlyCost, sizeGB),
                   option[1].monthlyCost)>>
       ELSE <<>>

\* if (spec.storage) { if (objectGB) ...; if (blockGB) ... }
storageLines(spec, provider, data) ==
    IF spec.storage = Null THEN NoLines
    ELSE LET request == spec.storage[1]
         IN [breakdown |->
                (IF truthy(request.objectGB)
                 THEN storageLine(request.objectGB[1], "object", provider, data)
                 ELSE <<>>)
                \o (IF truthy(request.blockGB)
                    THEN storageLine(request.blockGB[1], "block", provider, data)
                    ELSE <<>>),
             notes |-> <<>>]

\* if (spec.egress) { ... }
egressLines(spec, provider, data) ==
    IF spec.egress = Null THEN NoLines
    ELSE LET monthlyGB == spec.egress[1].monthlyGB
             result == compareEgress(data.egress, monthlyGB)
             found == findEstimate(result.estimates, provider)
         IN IF found # Null
            THEN [breakdown |->
                     <<Line("Networking", "Data Egress", monthlyGB,
                            IF monthlyGB > 0
                            THEN Ratio(found[1].monthlyCost, monthlyGB)
                            ELSE Ratio(0, 1),
                            found[1].monthlyCost)>>,
                  notes |-> IF provider = "oci" /\ found[1].monthlyCost = 0
                            THEN <<"OCI: 10TB/month free egress included">>
                            ELSE <<>>]
            ELSE NoLines

\* if (spec.kubernetes) { ... }, given what compareKubernetes returned
k8sLines(spec, provider, result) ==
    IF spec.kubernetes = Null THEN NoLines
    ELSE LET request == spec.kubernetes[1]
             found == findEstimate(result.estimates, provider)
         IN IF found # Null
            THEN [breakdown |->
                     (IF found[1].controlPlaneCost > 0
                      THEN <<Line("Kubernetes", "Control Plane", 1,
                                  Ratio(found[1].controlPlaneCost, 1),
                                  found[1].controlPlaneCost)>>
                      ELSE <<>>)
                     \o <<Line("Kubernetes", "Worker Nodes", request.nodeCount,
                               Ratio(found[1].workerNodeCost, request.nodeCount),
                               found[1].workerNodeCost)>>,
                  notes |-> IF found[1].controlPlaneCost > 0 THEN <<>>
                            ELSE <<"Free Kubernetes control plane">>]
            ELSE NoLines

RECURSIVE reduceTotal(_)

\* the total as the monthlyTotal of the first line only
reduceTotal_FirstLine(breakdown) ==
    IF breakdown = <<>> THEN 0 ELSE Head(breakdown).monthlyTotal

\* breakdown.reduce((sum, item) => sum + item.monthlyTotal, 0)
reduceTotal(breakdown) ==
    IF breakdown = <<>> THEN 0
    ELSE reduceTotal(SubSeq(breakdown, 1, Len(breakdown) - 1))
         + breakdown[Len(breakdown)].monthlyTotal

\* compareKubernetes as calculateProviderCost calls it (not called without a
\* kubernetes request)
k8sFor(spec, data) ==
    IF spec.kubernetes = Null
    THEN [threw |-> FALSE, estimates |-> <<>>, cheapest |-> Null]
    ELSE compareKubernetes(data.k8s, data.compute, spec.kubernetes[1])

\* return { provider, breakdown, totalMonthly, notes }
estimateOf(provider, breakdown, notes) ==
    [provider |-> provider,
     breakdown |-> breakdown,
     totalMonthly |-> reduceTotal(breakdown),
     notes |-> notes]

\* the lines and notes of the four parts, in the order they are pushed
estimateOfParts(provider, compute, storage, egress, k8s) ==
    estimateOf(provider,
               compute.breakdown \o storage.breakdown
                  \o egress.breakdown \o k8s.breakdown,
               compute.notes \o storage.notes \o egress.notes \o k8s.notes)

\* calculateProviderCost(spec, provider), when compareKubernetes returns
calculateProviderCost(spec, provider, data) ==
    estimateOfParts(provider,
                    computeLines(spec, provider, data),
                    storageLines(spec, provider, data),
                    egressLines(spec, provider, data),
                    k8sLines(spec, provider, k8sFor(spec, data)))

\* a thrown Error: its message, what it names and the alternatives it lists
Thrown(message, subject, lists) ==
    [threw |-> TRUE, message |-> message, subject |-> subject, lists |-> lists]

\* the savings sentence with the percentage cut, not rounded
savingsVsBaseline_Floor(estimates, cheapest) ==
    LET awsEstimate == findEstimate(estimates, "aws")
    IN IF awsEstimate # Null /\ cheapest # "aws"
          /\ awsEstimate[1].totalMonthly > 0
       THEN Some([savingsAmount |->
                     awsEstimate[1].totalMonthly - estimates[1].totalMonthly,
                  savingsPercent |->
                     ((awsEstimate[1].totalMonthly
                         - estimates[1].totalMonthly) * 100)
                        \div awsEstimate[1].totalMonthly])
       ELSE Null

\* if (awsEstimate && cheapest !== 'aws' && awsEstimate.totalMonthly > 0):
\* the ` Saves $x/month (y%) vs AWS.` sentence, or none
savingsVsBaseline(estimates, cheapest) ==
    LET awsEstimate == findEstimate(estimates, "aws")
    IN IF awsEstimate # Null /\ cheapest # "aws"
          /\ awsEstimate[1].totalMonthly > 0
       THEN Some([savingsAmount |->
                     awsEstimate[1].totalMonthly - estimates[1].totalMonthly,
                  savingsPercent |->
                     mathRound((awsEstimate[1].totalMonthly
                                  - estimates[1].totalMonthly) * 100,
                               awsEstimate[1].totalMonthly)])
       ELSE Null

\* the estimates left in the order of the providers
rankEstimates_Unsorted(estimates) == estimates

\* estimates.sort((a, b) => a.totalMonthly - b.totalMonthly)
rankEstimates(estimates) == sortByKey(estimates, "totalMonthly")

\* return { spec, estimates, cheapest, savingsSummary }, given the sorted
\* estimates
costComparison(spec, estimates) ==
    [threw |-> FALSE,
     spec |-> spec,
     estimates |-> estimates,
     cheapest |-> estimates[1].provider,
     savingsSummary |->
         [cheapestTotal |-> estimates[1].totalMonthly,
          vsAWS |-> savingsVsBaseline(estimates, estimates[1].provider)]]

\* calculateWorkloadCost(spec); the TypeError of compareKubernetes passes
\* through it
calculateWorkloadCost(spec, data) ==
    IF k8sFor(spec, data).threw
    THEN Thrown("TypeError", "estimates[0]", {})
    ELSE costComparison(spec,
             rankEstimates([i \in 1..Len(Providers) |->
                               calculateProviderCost(spec, Providers[i], data)]))

\* the parts of a WorkloadSpec
ComputeReq(vcpus, memoryGB, count) ==
    Some([vcpus |-> vcpus, memoryGB |-> memoryGB, count |-> count])

StorageReq(objectGB, blockGB) ==
    Some([objectGB |-> objectGB, blockGB |-> blockGB])

EgressReq(monthlyGB) == Some([monthlyGB |-> monthlyGB])

K8sReq(nodeCount, nodeVcpus, nodeMemoryGB) ==
    Some([nodeCount |-> nodeCount, nodeVcpus |-> nodeVcpus,
          nodeMemoryGB |-> nodeMemoryGB])

WSpec(compute, storage, egress, kubernetes) ==
    [compute |-> compute, storage |-> storage, egress |-> egress,
     kubernetes |-> kubernetes]

\* const presets = { ... } of quickEstimate
presets ==
    [p \in {"small-web-app", "medium-api-server", "large-database",
            "ml-training", "kubernetes-cluster", "data-lake",
            "high-egress-cdn", "gpu-inference", "gpu-training-small",
            "gpu-training-large", "high-traffic-web"} |->
       CASE p = "small-web-app" ->
              WSpec(ComputeReq(2, 4, Some(1)), StorageReq(Null, Some(50)),
                    EgressReq(100), Null)
         [] p = "medium-api-server" ->
              WSpec(ComputeReq(4, 16, Some(2)), StorageReq(Some(100), Some(200)),
                    EgressReq(500), Null)
         [] p = "large-database" ->
              WSpec(ComputeReq(8, 64, Some(1)), StorageReq(Null, Some(1000)),
                    EgressReq(200), Null)
         [] p = "ml-training" ->
              WSpec(ComputeReq(8, 32, Some(2)), StorageReq(Some(500), Null),
                    EgressReq(1000), Null)
         [] p = "kubernetes-cluster" ->
              WSpec(Null, StorageReq(Null, Some(300)), EgressReq(500),
                    K8sReq(3, 4, 16))
         [] p = "data-lake" ->
              WSpec(ComputeReq(16, 128, Some(1)), StorageReq(Some(100000), Null),
                    EgressReq(5000), Null)
         [] p = "high-egress-cdn" ->
              WSpec(ComputeReq(2, 4, Some(2)), StorageReq(Some(200), Null),
                    EgressReq(10000), Null)
         [] p = "gpu-inference" ->
              WSpec(ComputeReq(64, 1024, Some(1)), StorageReq(Some(1000), Some(500)),
                    EgressReq(2000), Null)
         [] p = "gpu-training-small" ->
              WSpec(ComputeReq(128, 2048, Some(1)),
                    StorageReq(Some(5000), Some(2000)), EgressReq(5000), Null)
         [] p = "gpu-training-large" ->
              WSpec(ComputeReq(112, 2048, Some(1)),
                    StorageReq(Some(50000), Some(10000)), EgressReq(10000), Null)
         [] p = "high-traffic-web" ->
              WSpec(ComputeReq(8, 64, Some(4)), StorageReq(Some(2000), Some(500)),
                    EgressReq(10000), Null)]

\* quickEstimate(preset)
quickEstimate(preset, data) ==
    IF preset \notin DOMAIN presets
    THEN Thrown("Unknown preset", preset, DOMAIN presets)
    ELSE calculateWorkloadCost(presets[preset], data)

\* the recommendation with the savings rounded to cents before the test
recommendationFor_Rounded(monthlySavings) ==
    LET cents == mathRound(monthlySavings, 10)
    IN IF cents > 0 THEN "could save"
       ELSE IF cents < 0 THEN "already cheaper"
       ELSE "costs are similar"

\* if (monthlySavings > 0) ... else if (monthlySavings < 0) ... else ...
recommendationFor(monthlySavings) ==
    IF monthlySavings > 0 THEN "could save"
    ELSE IF monthlySavings < 0 THEN "already cheaper"
    ELSE "costs are similar"

\* a target left out taken to be AWS
targetOf_Aws(options, cheapest) ==
    IF options.targetProvider = Null \/ options.targetProvider[1] = ""
    THEN "aws"
    ELSE options.targetProvider[1]

\* options.targetProvider || result.cheapest: the cheapest for a target that
\* is left out or the empty string
targetOf(options, cheapest) ==
    IF options.targetProvider = Null \/ options.targetProvider[1] = ""
    THEN cheapest
    ELSE options.targetProvider[1]

\* the figures returned for the two totals
migrationFigures(targetProvider, currentCost, targetCost) ==
    LET monthlySavings == currentCost - targetCost
    IN [threw |-> FALSE,
        targetProvider |-> targetProvider,
        currentCost |-> currentCost,
        targetCost |-> targetCost,
        monthlySavings |-> monthlySavings,
        annualSavings |-> monthlySavings * 12,
        percentSavings |->
            IF currentCost > 0
            THEN mathRound(monthlySavings * 100, currentCost)
            ELSE 0,
        recommendation |-> recommendationFor(monthlySavings)]

\* if (!currentEstimate) throw ...; if (!targetEstimate) throw ...
migrationOf(options, targetProvider, currentEstimate, targetEstimate) ==
    IF currentEstimate = Null
    THEN Thrown("Could not calculate cost for", options.currentProvider, {})
    ELSE IF targetEstimate = Null
    THEN Thrown("Could not calculate cost for", targetProvider, {})
    ELSE migrationFigures(targetProvider, currentEstimate[1].totalMonthly,
                          targetEstimate[1].totalMonthly)

\* result.estimates.find(e => e.provider === ...) for the two providers
migrationBetween(options, targetProvider, estimates) ==
    migrationOf(options, targetProvider,
                findEstimate(estimates, options.currentProvider),
                findEstimate(estimates, targetProvider))

\* the rest of estimateMigrationSavings, given what calculateWorkloadCost
\* returned; its TypeError passes through
migrationFrom(options, result) ==
    IF result.threw THEN result
    ELSE migrationBetween(options, targetOf(options, result.cheapest),
                          result.estimates)

\* estimateMigrationSavings(options)
estimateMigrationSavings(options, data) ==
    migrationFrom(options, calculateWorkloadCost(options.spec, data))

\* what one comparison function reads for a spec; a part that is not asked
\* for is not read
readPart(c, t, disk, spec, part) ==
    CASE part = "compute" /\ spec.compute # Null ->
            getAllComputeInstances(c, t, disk)
      [] part = "storage" /\ spec.storage # Null
            /\ (truthy(spec.storage[1].objectGB)
                \/ truthy(spec.storage[1].blockGB)) ->
            getAllStorageOptions(c, t, disk)
      [] part = "egress" /\ spec.egress # Null ->
            getAllEgressPricing(c, t, disk)
      [] part = "k8s" /\ spec.kubernetes # Null ->
            getAllKubernetesPricing(c, t, disk)
      [] part = "nodes" /\ spec.kubernetes # Null ->
            getAllComputeInstances(c, t, disk)
      [] OTHER -> [ret |-> <<>>, cache |-> c]

\* what has been read, with one more part
withPart(rets, read) == [rets |-> Append(rets, read.ret), cache |-> read.cache]

\* one more part read on the cache the parts before it have left
addPart(before, t, disk, spec, part) ==
    withPart(before.rets, readPart(before.cache, t, disk, spec, part))

\* the parts read one after the other
RECURSIVE readParts(_, _, _, _, _)
readParts(c, t, disk, spec, parts) ==
    IF parts = <<>> THEN [rets |-> <<>>, cache |-> c]
    ELSE addPart(readParts(c, t, disk, spec, SubSeq(parts, 1, Len(parts) - 1)),
                 t, disk, spec, parts[Len(parts)])

\* the instances calculateProviderCost works on are those of the last read
dataOf(spec, read) ==
    [ret |-> [compute |-> IF spec.kubernetes # Null
                          THEN read.rets[5] ELSE read.rets[1],
              storage |-> read.rets[2],
              egress |-> read.rets[3],
              k8s |-> read.rets[4]],
     cache |-> read.cache]

\* what the comparison functions read for a spec, in the order of the
\* calculator's first pass: compute, storage, egress, kubernetes pricing and
\* the instances for its worker nodes
dataFor(c, t, disk, spec) ==
    dataOf(spec, readParts(c, t, disk, spec,
                           <<"compute", "storage", "egress", "k8s", "nodes">>))

\* the bundles of the calculator: amounts in thousandths of a dollar
WorkloadCompute ==
    [aws |-> <<Inst("aws", "t3.medium", 2, 3, 30000, "general", "x86"),
               Inst("aws", "t3.small", 2, 3, 20000, "general", "x86")>>,
     azure |-> <<Inst("azure", "B2s", 2, 3, 20000, "general", "x86")>>,
     oci |-> <<Inst("oci", "E4.Flex", 2, 3, 15000, "general", "x86")>>]

\* more accepted instances than compareCompute returns, all cheaper than
\* those of the other providers
GcpCheapLong ==
    [i \in 1..(MaxMatches + 1) |->
        Inst("gcp", "e2-" \o ToString(i), 2, 3, 4000 + ((i * 3) % 7) * 100,
             "general", "x86")]

WorkloadStorage ==
    [aws |-> <<Store("aws", "S3 Standard", "object", "hot", 23),
               Store("aws", "EBS gp3", "block", "hot", 80)>>,
     azure |-> <<Store("azure", "Blob Hot", "object", "hot", 20),
                 Store("azure", "Managed Disk", "block", "hot", 75)>>,
     gcp |-> <<Store("gcp", "Cloud Storage Standard", "object", "hot", 20)>>,
     oci |-> <<Store("oci", "Object Storage", "object", "hot", 25),
               Store("oci", "Block Volume", "block", "hot", 25)>>]

WorkloadEgress ==
    [aws |-> PlainEgress,
     azure |-> PlainEgress,
     gcp |-> [freeGBPerMonth |-> 200,
              tiers |-> <<[upToGB |-> 1024, pricePerGB |-> 120],
                          [upToGB |-> -1, pricePerGB |-> 80]>>],
     oci |-> [freeGBPerMonth |-> 10240,
              tiers |-> <<[upToGB |-> -1, pricePerGB |-> 9]>>]]

WorkloadBundle(p, compute, kubernetes) ==
    WithKubernetes(WithStorage(Bundle(p, compute, WorkloadEgress[p]),
                               WorkloadStorage[p]), kubernetes)

WorkloadSpecs ==
    {WSpec(c, s, e, k) :
        c \in {Null, ComputeReq(2, 3, Null), ComputeReq(2, 3, Some(2)),
               ComputeReq(2, 3, Some(0)), ComputeReq(8, 8, Some(1))},
        s \in {Null, StorageReq(Null, Null), StorageReq(Some(1), Null),
               StorageReq(Some(0), Some(2))},
        e \in {Null, EgressReq(0), EgressReq(20000)},
        k \in {Null, K8sReq(2, 2, 3)}}

PresetNames == DOMAIN presets \cup {"tiny-web-app"}

\* the specs migrations are asked for: those without an egress request
MigrationSpecs == {spec \in WorkloadSpecs : spec.egress = Null}

MigrationOptions ==
    [spec : MigrationSpecs,
     currentProvider : {"aws", "oci", "ibm"},
     targetProvider : {Null, Some(""), Some("azure"), Some("ibm")}]

InitWorkload ==
    /\ cache = clear(<<>>)
    /\ now = 0
    /\ lastOp = NoOp
    /\ lastSet = [k \in Keys |-> Null]
    /\ calls = [p \in Callers |-> Idle]
    /\ \E g \in {<<>>, GcpCheapLong}, k \in K8sChoices :
          bundled = [p \in ProviderSet |->
                        WorkloadBundle(p, IF p = "gcp" THEN g
                                          ELSE WorkloadCompute[p], k[p])]
    /\ EngineIdle

\* a call of calculateWorkloadCost(spec)
\* the cache after the compareStorage call for one storage line
leaveStorageLine(c, sizeGB, type) ==
    IF truthy(sizeGB)
    THEN leaveStorage(c, [sizeGB |-> sizeGB[1], type |-> Some(type),
                          tier |-> Some("hot")])
    ELSE c

\* the cache after the comparisons calculateProviderCost calls for a spec:
\* compute, object and block storage, and the worker nodes (compareEgress
\* sorts the estimates it has mapped from the tiers, never a cached array)
leaveWorkload(c, spec) ==
    LET compute == IF spec.compute # Null
                   THEN leaveCompute(c, [vcpus |-> Some(spec.compute[1].vcpus),
                                         memoryGB |->
                                             Some(spec.compute[1].memoryGB),
                                         category |-> Null])
                   ELSE c
        storage == IF spec.storage # Null
                   THEN leaveStorageLine(
                            leaveStorageLine(compute,
                                             spec.storage[1].objectGB, "object"),
                            spec.storage[1].blockGB, "block")
                   ELSE compute
    IN IF spec.kubernetes # Null
       THEN leaveKubernetes(storage, spec.kubernetes[1])
       ELSE storage

CalculateWorkloadCost(spec) ==
    LET data == dataFor(cache, now, bundled, spec)
    IN /\ workloadResult = Null
       /\ cache' = leaveWorkload(data.cache, spec)
       /\ workloadResult' = Some([op |-> "calculateWorkloadCost", arg |-> spec,
                                  ret |-> calculateWorkloadCost(spec, data.ret)])
       /\ UNCHANGED <<now, lastOp, lastSet, calls, bundled, computeResult,
                      egressPrev, egressLast, storageResult, k8sResult>>

\* a call of quickEstimate(preset); nothing is read for an unknown preset
QuickEstimate(preset) ==
    LET known == preset \in DOMAIN presets
        data == IF known THEN dataFor(cache, now, bundled, presets[preset])
                ELSE [ret |-> <<>>, cache |-> cache]
    IN /\ workloadResult = Null
       /\ cache' = IF known THEN leaveWorkload(data.cache, presets[preset])
                   ELSE data.cache
       /\ workloadResult' = Some([op |-> "quickEstimate", arg |-> preset,
                                  ret |-> quickEstimate(preset, data.ret)])
       /\ UNCHANGED <<now, lastOp, lastSet, calls, bundled, computeResult,
                      egressPrev, egressLast, storageResult, k8sResult>>

\* a call of estimateMigrationSavings(options)
EstimateMigrationSavings(options) ==
    LET data == dataFor(cache, now, bundled, options.spec)
    IN /\ workloadResult = Null
       /\ cache' = leaveWorkload(data.cache, options.spec)
       /\ workloadResult' = Some([op |-> "estimateMigrationSavings",
                                  arg |-> options,
                                  ret |-> estimateMigrationSavings(options,
                                                                   data.ret)])
       /\ UNCHANGED <<now, lastOp, lastSet, calls, bundled, computeResult,
                      egressPrev, egressLast, storageResult, k8sResult>>

\* the caller has taken the result; the next call may come
WorkloadAnswered ==
    /\ workloadResult # Null
    /\ workloadResult' = Null
    /\ UNCHANGED <<cacheVars, calls, bundled, computeResult,
                   egressPrev, egressLast, storageResult, k8sResult>>

\* a call of getProviderData(provider)
GetProviderData(provider) ==
    LET data == getProviderData(cache, now, bundled, provider)
    IN /\ workloadResult = Null
       /\ cache' = data.cache
       /\ workloadResult' =
             Some([op |-> "getProviderData", arg |-> provider,
                   ret |-> IF provider \in ProviderSet
                           THEN [threw |-> FALSE, data |-> data.ret]
                           ELSE data.ret])
       /\ UNCHANGED <<now, lastOp, lastSet, calls, bundled, computeResult,
                      egressPrev, egressLast, storageResult, k8sResult>>

NextWorkload ==
    \/ \E spec \in WorkloadSpecs : CalculateWorkloadCost(spec)
    \/ \E provider \in {"aws", "ibm"} : GetProviderData(provider)
    \/ \E preset \in PresetNames : QuickEstimate(preset)
    \/ \E options \in MigrationOptions : EstimateMigrationSavings(options)
    \/ WorkloadAnswered
    \/ RefreshAllCache

\* the cost calculator over the bundled data
SpecWorkload == InitWorkload /\ [][NextWorkload]_vars

----------------------------------------------------------------------------
(* Provider data access driven directly: getProviderData and the merged     *)
(* lists, with refreshAllCache, the clock, and the data script rewriting a  *)
(* bundle file between two calls.                                           *)

\* the two contents a bundle file can have: before and after the data
\* script has written it
LoaderBundle(p, version) ==
    WithStorage(Bundle(p, <<Inst(p, "vm", 2, 3, 1000 * version, "general",
                                 "x86")>>, PlainEgress),
                <<Store(p, "object", "object", "hot", 20 + version)>>)

\* the file the data script writes here, of the three it writes: one is
\* enough to tell a stored bundle from a loaded one
Rewritten == {"aws"}

\* the clock readings of the loader: around the 60 minutes of the merged
\* lists and the 24 hours of the bundles
LoaderTimePoints ==
    {0, 60 * MsPerMinute, 60 * MsPerMinute + 1,
     24 * 60 * MsPerMinute, 24 * 60 * MsPerMinute + 1}

InitLoader ==
    /\ cache = clear(<<>>)
    /\ now = 0
    /\ lastOp = NoOp
    /\ lastSet = [k \in Keys |-> Null]
    /\ calls = [p \in Callers |-> Idle]
    /\ bundled = [p \in ProviderSet |-> LoaderBundle(p, 1)]
    /\ EngineIdle

\* a call of getAllComputeInstances()
GetAllComputeInstances ==
    LET data == getAllComputeInstances(cache, now, bundled)
    IN /\ workloadResult = Null
       /\ cache' = data.cache
       /\ workloadResult' =
             Some([op |-> "getAllComputeInstances", arg |-> Null,
                   ret |-> [threw |-> FALSE, data |-> data.ret]])
       /\ UNCHANGED <<now, lastOp, lastSet, calls, bundled, computeResult,
                      egressPrev, egressLast, storageResult, k8sResult>>

\* a call of getAllStorageOptions()
GetAllStorageOptions ==
    LET data == getAllStorageOptions(cache, now, bundled)
    IN /\ workloadResult = Null
       /\ cache' = data.cache
       /\ workloadResult' =
             Some([op |-> "getAllStorageOptions", arg |-> Null,
                   ret |-> [threw |-> FALSE, data |-> data.ret]])
       /\ UNCHANGED <<now, lastOp, lastSet, calls, bundled, computeResult,
                      egressPrev, egressLast, storageResult, k8sResult>>

\* the data script writes <provider>-pricing.json anew
RewriteBundle(provider) ==
    /\ bundled[provider] = LoaderBundle(provider, 1)
    /\ bundled' = [bundled EXCEPT ![provider] = LoaderBundle(provider, 2)]
    /\ UNCHANGED <<cacheVars, calls, computeResult, egressPrev, egressLast,
                   storageResult, k8sResult, workloadResult>>

\* time passes between two calls
LoaderTick ==
    /\ \E t \in LoaderTimePoints : t > now /\ now' = t
    /\ UNCHANGED <<cache, lastOp, lastSet, calls, engineVars>>

NextLoader ==
    \/ \E provider \in ProviderSet : GetProviderData(provider)
    \/ GetAllComputeInstances
    \/ GetAllStorageOptions
    \/ WorkloadAnswered
    \/ RefreshAllCache
    \/ \E provider \in Rewritten : RewriteBundle(provider)
    \/ LoaderTick

\* the loader under calls, refreshes, the clock and rewritten files
SpecLoader == InitLoader /\ [][NextLoader]_vars

----------------------------------------------------------------------------
(* The comparisons and the calculator on one cache: every call comes when    *)
(* the result of the one before has been taken.                              *)

\* the volumes asked of compareEgress here
QueryVolumes == {0, 20000}

QueriesIdle ==
    /\ computeResult = Null
    /\ storageResult = Null
    /\ k8sResult = Null
    /\ workloadResult = Null

NextQueries ==
    \/ QueriesIdle /\ \E query \in ComputeQueries : CompareCompute(query)
    \/ QueriesIdle /\ \E query \in StorageQueries : CompareStorage(query)
    \/ QueriesIdle /\ \E monthlyGB \in QueryVolumes : CompareEgress(monthlyGB)
    \/ QueriesIdle /\ \E options \in K8sOptions : CompareKubernetes(options)
    \/ QueriesIdle /\ \E spec \in WorkloadSpecs : CalculateWorkloadCost(spec)
    \/ ComputeAnswered
    \/ StorageAnswered
    \/ K8sAnswered
    \/ WorkloadAnswered

\* any sequence of comparison and workload queries over the bundled files
SpecQueries == InitWorkload /\ [][NextQueries]_vars

----------------------------------------------------------------------------
(* Fetchers and loader on the one pricingCache: a caller of the real-time    *)
(* fetchers next to the reads of the bundled data.                           *)

\* the fetcher calls made here: defaults, and options that look like the
\* loader's keys
MixedCalls == {<<"fetchAWSEC2Pricing", Null>>,
               <<"fetchAzureVantagePricing", Some("azure_pricing_data")>>}

\* the caller of the fetchers
MixedCaller == "c1"

\* the clock readings here: the start, and past the 60 minutes of the merged
\* lists and of the fetched entries
MixedTimePoints == {0, 60 * MsPerMinute + 1}

MixedTick ==
    /\ \E t \in MixedTimePoints : t > now /\ now' = t
    /\ UNCHANGED <<cache, lastOp, lastSet, calls, engineVars>>

NextMixed ==
    \/ \E c \in MixedCalls : CallFetcher(MixedCaller, c[1], c[2])
    \/ ResponseArrives(MixedCaller)
    \/ FetchFails(MixedCaller)
    \/ \E d \in Feeds : BodyParsed(MixedCaller, d)
    \/ \E provider \in Rewritten : GetProviderData(provider)
    \/ GetAllComputeInstances
    \/ GetAllStorageOptions
    \/ WorkloadAnswered
    \/ \E provider \in Rewritten : RewriteBundle(provider)
    \/ MixedTick

\* fetcher calls between the reads of the loader
SpecMixed == InitLoader /\ [][NextMixed]_vars

----------------------------------------------------------------------------
(* Specifications *)

\* no bundle is read when only the cache or the fetchers are exercised
NoBundles == [p \in ProviderSet |-> Bundle(p, <<>>, PlainEgress)]

Init ==
    /\ CacheInit
    /\ calls = [p \in Callers |-> Idle]
    /\ bundled = NoBundles
    /\ EngineIdle

Next ==
    \/ \E k \in Keys : Get(k)
    \/ \E k \in Keys, v \in Values, ttl \in TTLArgs : Set(k, v, ttl)
    \/ \E k \in Keys : Has(k)
    \/ \E k \in Keys : Delete(k)
    \/ Clear
    \/ GetStats
    \/ Tick

\* the cache under an arbitrary sequence of calls and clock advances
Spec == Init /\ [][Next]_vars

InitFetch ==
    /\ FetchInit
    /\ lastOp = NoOp
    /\ lastSet = [k \in Keys |-> Null]
    /\ bundled = NoBundles
    /\ EngineIdle

NextFetch ==
    \/ \E p \in Callers, c \in CallsMade : CallFetcher(p, c[1], c[2])
    \/ \E p \in Callers : ResponseArrives(p)
    \/ \E p \in Callers : FetchFails(p)
    \/ \E p \in Callers, d \in Feeds : BodyParsed(p, d)
    \/ RefreshAllCache
    \/ FetchTick

\* concurrent callers of the real-time fetchers
SpecFetch == InitFetch /\ [][NextFetch]_vars

----------------------------------------------------------------------------
(* Construction of ComputeInstance records by the real-time fetchers.        *)
(* Prices are in ten-thousandths of a dollar: 0.0047 an hour is 47, 3.50 a   *)
(* month is 35000. Products are exact, not floating point. The fetch itself  *)
(* is the part modelled under SpecFetch; here the body is turned into        *)
(* records. Names, sizes, regions and notes are left out.                    *)

HoursPerMonth == 730

MaxHourly == 40

\* Math.round(hourlyPrice * 730 * 100) / 100
roundedMonthly(hourlyPrice) == mathRound(hourlyPrice * HoursPerMonth, 100) * 100

\* the record of one item of the instances.vantage.sh data
\* (the same in fetchAWSEC2Pricing, fetchGCPComputePricing and
\* fetchAzureInstancesPricing)
vantageInstance(provider, hourlyPrice) ==
    [provider |-> provider, hourlyPrice |-> hourlyPrice,
     monthlyPrice |-> roundedMonthly(hourlyPrice)]

\* items of a parsed body: the price is Null where parseFloat gives NaN
\* (`if (isNaN(hourlyPrice)) continue`)
vantageInstances(provider, prices) ==
    LET priced == SelectSeq(prices, LAMBDA h : h # Null)
    IN sortByKey([i \in 1..Len(priced) |->
                     vantageInstance(provider, priced[i][1])], "monthlyPrice")

LIGHTSAIL_BUNDLES ==
    <<[name |-> "nano", hourlyPrice |-> 47, monthlyPrice |-> 35000],
      [name |-> "micro", hourlyPrice |-> 67, monthlyPrice |-> 50000],
      [name |-> "small", hourlyPrice |-> 134, monthlyPrice |-> 100000],
      [name |-> "medium", hourlyPrice |-> 268, monthlyPrice |-> 200000],
      [name |-> "large", hourlyPrice |-> 536, monthlyPrice |-> 400000],
      [name |-> "xlarge", hourlyPrice |-> 1072, monthlyPrice |-> 800000],
      [name |-> "2xlarge", hourlyPrice |-> 2144, monthlyPrice |-> 1600000]>>

\* getAWSLightsailPricing().bundles
getAWSLightsailPricing ==
    [i \in 1..Len(LIGHTSAIL_BUNDLES) |->
        [provider |-> "aws",
         hourlyPrice |-> LIGHTSAIL_BUNDLES[i].hourlyPrice,
         monthlyPrice |-> LIGHTSAIL_BUNDLES[i].monthlyPrice]]

\* the record fetchAzureComputePricing pushes for one item of the Retail API
retailInstance(retailPrice) ==
    [provider |-> "azure", hourlyPrice |-> retailPrice,
     monthlyPrice |-> retailPrice * HoursPerMonth]

\* fetchAzureComputePricing over the items that pass its filters
fetchAzureComputePricing(retailPrices) ==
    sortByKey([i \in 1..Len(retailPrices) |-> retailInstance(retailPrices[i])],
              "monthlyPrice")

\* hourly prices of the upstream data, 0.14 among them
HourlyPrices == 0..MaxHourly \cup {1400}

\* what parseFloat makes of an item's price: Null for NaN
ParsedPrices == {Null} \cup {Some(h) : h \in HourlyPrices}

\* bodies of at most two items
VantageBodies == {<<>>} \cup {<<h>> : h \in ParsedPrices}
                     \cup {<<h, Some(1400)>> : h \in ParsedPrices}

RetailBodies == {<<>>} \cup {<<h>> : h \in HourlyPrices}
                    \cup {<<h, 1400>> : h \in HourlyPrices}

InitPrices ==
    /\ cache = clear(<<>>)
    /\ now = 0
    /\ lastOp = NoOp
    /\ lastSet = [k \in Keys |-> Null]
    /\ calls = [p \in Callers |-> Idle]
    /\ bundled = NoBundles
    /\ EngineIdle

\* the records handed to the caller
Constructed(op, instances) ==
    /\ computeResult = Null
    /\ computeResult' = Some([op |-> op, instances |-> instances])
    /\ UNCHANGED <<cacheVars, calls, bundled, egressPrev, egressLast,
                   storageResult, k8sResult, workloadResult>>

\* the body of a vantage.sh fetcher turned into records
VantageBody(provider, prices) ==
    Constructed("vantage", vantageInstances(provider, prices))

\* a call of getAWSLightsailPricing()
GetAWSLightsailPricing ==
    Constructed("getAWSLightsailPricing", getAWSLightsailPricing)

\* a call of fetchAzureComputePricing() answered with the given items
FetchAzureComputePricing(retailPrices) ==
    Constructed("fetchAzureComputePricing",
                fetchAzureComputePricing(retailPrices))

NextPrices ==
    \/ \E provider \in {"aws", "azure", "gcp"}, prices \in VantageBodies :
          VantageBody(provider, prices)
    \/ GetAWSLightsailPricing
    \/ \E retailPrices \in RetailBodies :
          FetchAzureComputePricing(retailPrices)
    \/ ComputeAnswered

\* the records the program constructs, for any upstream prices
SpecPrices == InitPrices /\ [][NextPrices]_vars

----------------------------------------------------------------------------
(* Properties of the cache (checked under Spec) *)

\* the expiry a set states: its time plus the TTL given, or plus the default
\* TTL when none was given
StatedExpiry(s) ==
    s.at + (IF s.ttl = Null THEN defaultTTL ELSE s.ttl[1] * MsPerMinute)

\* C1: get on an entry that is present but past its expiry returns what get
\* on a key never set returns (null) and removes the entry, so that has and
\* getStats called next do not see it.
C1_ExpiredGetIsAbsentAndEvicts ==
    (lastOp.op = "get" /\ lastOp.pre = "expired") =>
        /\ lastOp.ret = Null
        /\ lastOp.ret = get(clear(cache), now, lastOp.key).ret
        /\ lastOp.key \notin DOMAIN cache
        /\ ~has(cache, now, lastOp.key).ret
        /\ lastOp.key \notin getStats(cache, now).ret.keys

C1_Witness == lastOp.op = "get" /\ lastOp.pre = "expired"

\* C2: getStats reports exactly the entries that are not expired at the time
\* of the call: keys is the set of unexpired keys and size is their number.
C2_StatsReportUnexpiredOnly ==
    lastOp.op = "getStats" =>
        /\ lastOp.ret.keys = lastOp.fresh
        /\ lastOp.ret.size = Cardinality(lastOp.fresh)
        /\ lastOp.ret.keys \cap lastOp.stale = {}

C2_Witness ==
    /\ lastOp.op = "getStats"
    /\ lastOp.stale # {}
    /\ lastOp.fresh # {}

\* C3: the most recent set of a key wins: the entry held carries its value
\* and the time of that set, and get returns that value as long as the
\* expiry that set states has not passed (no delete or clear in between).
C3_LastSetWins ==
    \A k \in Keys :
        /\ k \in DOMAIN cache => lastSet[k] # Null
        /\ lastSet[k] # Null =>
            /\ k \in DOMAIN cache =>
                /\ cache[k].data = lastSet[k][1].data
                /\ cache[k].timestamp = lastSet[k][1].at
            /\ (lastOp.op = "get" /\ lastOp.key = k
                    /\ now <= StatedExpiry(lastSet[k][1]))
                => lastOp.ret = Some(lastSet[k][1].data)

\* a get answered from a set that replaced a live entry holding other data
C3_Witness ==
    /\ lastOp.op = "get"
    /\ lastSet[lastOp.key] # Null
    /\ lastSet[lastOp.key][1].over
    /\ lastOp.ret = Some(lastSet[lastOp.key][1].data)

\* C4: every entry expires at the time of its set plus the TTL given, for
\* every TTL given (0 included), and plus the default TTL when none is given.
C4_ExplicitTTLHonoured ==
    \A k \in DOMAIN cache :
        lastSet[k] # Null /\ cache[k].expiresAt = StatedExpiry(lastSet[k][1])

----------------------------------------------------------------------------
(* Properties of the fetchers (checked under SpecFetch) *)

\* C5 as claimed: at most one upstream fetch per key is in flight
C5_AtMostOneInFlight ==
    \A p, q \in Callers :
        (p # q /\ InFlight(calls[p]) /\ InFlight(calls[q]))
            => calls[p].key # calls[q].key

\* C5: misses are not collapsed (each caller that misses fetches), but a
\* fetcher starts an upstream fetch only when its cache check finds no
\* unexpired entry for the key.
C5_FetchOnlyOnMiss ==
    [][\A p \in Callers :
          (calls[p].pc # "awaitFetch" /\ calls'[p].pc = "awaitFetch")
              => Standing(cache, now, calls'[p].key) # "fresh"]_vars

\* two fetches for one key in flight together
C5_Witness ==
    \E p, q \in Callers :
        /\ p # q
        /\ InFlight(calls[p]) /\ InFlight(calls[q])
        /\ calls[p].key = calls[q].key

\* C6: fetches for one key that were in flight together all write the same
\* value, and their callers are all handed that value (the cache holds the
\* last of these writes, so equal writes are what makes every caller's value
\* the value held).
C6_NoDivergentValues ==
    \A p \in Callers : \A q \in calls[p].overlap :
        (Wrote(calls[p]) # Null /\ Wrote(calls[q]) # Null) =>
            /\ Wrote(calls[p]) = Wrote(calls[q])
            /\ calls[p].ret[1].data = calls[q].ret[1].data

----------------------------------------------------------------------------
(* Properties of compareCompute (checked under SpecCompute) *)

\* the merged catalog in encounter order
Catalog ==
    bundled.aws.compute \o bundled.azure.compute
    \o bundled.gcp.compute \o bundled.oci.compute

Range(seq) == {seq[j] : j \in DOMAIN seq}

\* 0.5v <= vcpus <= 1.5v and 0.5m <= memoryGB <= 1.5m
InWindow(i, v, m) ==
    /\ v <= 2 * i.vcpus /\ 2 * i.vcpus <= 3 * v
    /\ m <= 2 * i.memoryGB /\ 2 * i.memoryGB <= 3 * m

InCategory(i, category) ==
    \/ category = Null
    \/ category = Some("arm") /\ i.architecture = "arm"
    \/ category # Some("arm") /\ category = Some(i.category)

RequestedV(q) == IF q.vcpus = Null THEN 0 ELSE q.vcpus[1]

RequestedM(q) == IF q.memoryGB = Null THEN 0 ELSE q.memoryGB[1]

\* the catalog positions of the instances a query accepts
Accepted(q) ==
    {k \in DOMAIN Catalog :
        /\ InWindow(Catalog[k], RequestedV(q), RequestedM(q))
        /\ InCategory(Catalog[k], q.category)}

Positions(x) == {k \in DOMAIN Catalog : Catalog[k] = x}

\* C7: with no category filter an instance is accepted exactly when it is in
\* the window, bounds included: the number found is the number of instances
\* in the window, every match is in the window, and every instance in the
\* window is a match when they fit the list returned; so an instance of
\* exactly the requested shape is accepted, and with v = 0 or m = 0 only
\* instances whose value is 0.
C7_WindowInclusive ==
    (computeResult # Null /\ computeResult[1].query.category = Null) =>
        LET r == computeResult[1]
            v == RequestedV(r.query)
            m == RequestedM(r.query)
            window == {k \in DOMAIN Catalog : InWindow(Catalog[k], v, m)}
        IN /\ r.found = Cardinality(window)
           /\ Range(r.matches) \subseteq {Catalog[k] : k \in window}
           /\ Cardinality(window) <= MaxMatches
                => Range(r.matches) = {Catalog[k] : k \in window}
           /\ \A k \in DOMAIN Catalog :
                (Catalog[k].vcpus = v /\ Catalog[k].memoryGB = m) => k \in window
           /\ v = 0 => \A x \in Range(r.matches) : x.vcpus = 0
           /\ m = 0 => \A x \in Range(r.matches) : x.memoryGB = 0

\* a match on the upper bound of the window, a match on its lower bound and
\* an instance left out
C7_Witness ==
    /\ computeResult # Null
    /\ computeResult[1].query.category = Null
    /\ LET r == computeResult[1]
           v == RequestedV(r.query)
       IN /\ v > 0
          /\ \E x \in Range(r.matches) : 2 * x.vcpus = 3 * v
          /\ \E x \in Range(r.matches) : 2 * x.vcpus = v
          /\ r.found < Len(Catalog)

\* C8: matches is sorted ascending by monthlyPrice, equal prices in catalog
\* order; it holds the 20 cheapest accepted instances (all of them when there
\* are at most 20); cheapest is its first entry, or null with an empty list.
C8_SortedStableCapped ==
    computeResult # Null =>
        LET r == computeResult[1]
            M == r.matches
            acc == Accepted(r.query)
        IN /\ Len(M) = (IF Cardinality(acc) < MaxMatches
                        THEN Cardinality(acc) ELSE MaxMatches)
           /\ \A j \in DOMAIN M : Positions(M[j]) \cap acc # {}
           /\ \A j \in 1..(Len(M) - 1) :
                /\ M[j].monthlyPrice <= M[j + 1].monthlyPrice
                /\ M[j].monthlyPrice = M[j + 1].monthlyPrice
                    => \E a \in Positions(M[j]), b \in Positions(M[j + 1]) : a < b
           /\ \A k \in acc : Catalog[k] \notin Range(M)
                => \A j \in DOMAIN M : M[j].monthlyPrice <= Catalog[k].monthlyPrice
           /\ r.cheapest = (IF M = <<>> THEN Null ELSE Some(M[1]))
           /\ acc = {} => (M = <<>> /\ r.cheapest = Null)

\* more matches than are returned, with two of equal price next to each other
C8_Witness ==
    /\ computeResult # Null
    /\ LET r == computeResult[1]
       IN /\ r.found > MaxMatches
          /\ Len(r.matches) = MaxMatches
          /\ \E j \in 1..(Len(r.matches) - 1) :
                r.matches[j].monthlyPrice = r.matches[j + 1].monthlyPrice
          /\ \E j \in 1..(Len(r.matches) - 1) :
                r.matches[j].monthlyPrice < r.matches[j + 1].monthlyPrice

\* C9: savingsVsAWS is absent when no AWS instance is accepted; when the
\* cheapest match is not AWS and an AWS instance is accepted it is the
\* integer nearest to (a - c) / a * 100, a the cheapest accepted AWS price
\* and c the cheapest price, and lies in 0..100.
C9_SavingsVsAWS ==
    computeResult # Null =>
        LET r == computeResult[1]
            awsAcc == {k \in Accepted(r.query) : Catalog[k].provider = "aws"}
        IN /\ awsAcc = {} => r.savingsVsAWS = Null
           /\ (awsAcc # {} /\ r.cheapest # Null /\ r.cheapest[1].provider # "aws") =>
                LET a == CHOOSE p \in {Catalog[k].monthlyPrice : k \in awsAcc} :
                            \A k \in awsAcc : p <= Catalog[k].monthlyPrice
                    c == r.cheapest[1].monthlyPrice
                IN /\ r.savingsVsAWS # Null
                   /\ r.savingsVsAWS[1] \in 0..100
                   /\ 2 * (r.savingsVsAWS[1] * a - 100 * (a - c)) <= a
                   /\ 2 * (100 * (a - c) - r.savingsVsAWS[1] * a) <= a

\* savings computed against an AWS match that is accepted but lies beyond
\* the matches returned
C9_Witness ==
    /\ computeResult # Null
    /\ computeResult[1].savingsVsAWS # Null
    /\ computeResult[1].found > MaxMatches
    /\ \A x \in Range(computeResult[1].matches) : x.provider # "aws"

----------------------------------------------------------------------------
(* Properties of compareEgress (checked under SpecEgress) *)

\* the cost a result gives for a provider
CostOf(result, p) ==
    LET i == CHOOSE j \in 1..Len(result.estimates) :
                 result.estimates[j].provider = p
    IN result.estimates[i].monthlyCost

FreeOf(p) == bundled[p].egress.freeGBPerMonth

\* C10: for every provider's egress pricing (free allowance F, tier list) and
\* every requested volume Q, the computed cost is 0 when Q <= F, and of two
\* volumes Q1 <= Q2 the cost for Q1 is at most the cost for Q2.
C10_FreeThenNonDecreasing ==
    /\ egressLast # Null =>
          \A p \in ProviderSet :
             egressLast[1].query <= FreeOf(p) => CostOf(egressLast[1], p) = 0
    /\ (egressPrev # Null /\ egressLast # Null) =>
          \A p \in ProviderSet :
             /\ egressPrev[1].query <= egressLast[1].query
                   => CostOf(egressPrev[1], p) <= CostOf(egressLast[1], p)
             /\ egressLast[1].query <= egressPrev[1].query
                   => CostOf(egressLast[1], p) <= CostOf(egressPrev[1], p)

\* two volumes asked in turn, the first positive and within a provider's
\* allowance and free, the second beyond a finite first tier and charged in
\* both of the provider's tiers
C10_Witness ==
    /\ egressPrev # Null
    /\ egressLast # Null
    /\ \E p \in ProviderSet :
          LET e == bundled[p].egress
          IN /\ Len(e.tiers) = 2
             /\ e.tiers[1].upToGB # -1
             /\ e.tiers[1].pricePerGB > 0
             /\ e.tiers[2].pricePerGB > 0
             /\ 0 < egressPrev[1].query
             /\ egressPrev[1].query <= e.freeGBPerMonth
             /\ CostOf(egressPrev[1], p) = 0
             /\ egressLast[1].query > e.tiers[1].upToGB
             /\ egressLast[1].query <= MaxVolume
             /\ CostOf(egressLast[1], p) >
                   (e.tiers[1].upToGB - e.freeGBPerMonth) * e.tiers[1].pricePerGB

\* what is left to bill before tier i of a pricing, for a volume Q, and what
\* tier i takes of it, as the walk is described: billable = max(0, Q - F), a
\* finite tier takes min(remaining, upToGB - F) (nothing when its bound is
\* not above F), the unbounded tier takes all that remains
Min2(a, b) == IF a < b THEN a ELSE b

Max2(a, b) == IF a > b THEN a ELSE b

TierShares(e, Q) ==
    LET F == e.freeGBPerMonth
        n == Len(e.tiers)
        takes(i, remaining) ==
            IF e.tiers[i].upToGB = -1 THEN remaining
            ELSE Max2(0, Min2(remaining, e.tiers[i].upToGB - F))
        left[i \in 1..(n + 1)] ==
            IF i = 1 THEN Max2(0, Q - F)
            ELSE left[i - 1] - takes(i - 1, left[i - 1])
    IN [i \in 1..n |-> takes(i, left[i])]

SumOfShares(e, Q) ==
    LET shares == TierShares(e, Q)
        sum[i \in 0..Len(e.tiers)] ==
            IF i = 0 THEN 0
            ELSE sum[i - 1] + shares[i] * e.tiers[i].pricePerGB
    IN sum[Len(e.tiers)]

IsScenarioPricing(e) ==
    /\ e.freeGBPerMonth = 100
    /\ e.tiers = <<[upToGB |-> 10240, pricePerGB |-> 90],
                   [upToGB |-> -1, pricePerGB |-> 50]>>

\* C11: compareEgress computes each provider's cost by the tier walk:
\* billable = max(0, Q - F), tiers visited in list order, each finite tier
\* taking min(remaining, upToGB - F) GB and the unbounded tier all that
\* remains, each at its pricePerGB, until nothing remains or tiers run out.
\* For F = 100 and tiers [upTo 10240 at 0.09, unbounded at 0.05] the cost is
\* 891.00 for Q = 10000 and 1400.60 for Q = 20000 (in thousandths here).
C11_TierWalk ==
    egressLast # Null =>
       \A p \in ProviderSet :
          LET e == bundled[p].egress
              Q == egressLast[1].query
          IN /\ CostOf(egressLast[1], p) = SumOfShares(e, Q)
             /\ (IsScenarioPricing(e) /\ Q = 10000)
                   => CostOf(egressLast[1], p) = 891000
             /\ (IsScenarioPricing(e) /\ Q = 20000)
                   => CostOf(egressLast[1], p) = 1400600

\* the two scenario volumes asked in turn of the scenario pricing, next to
\* a provider whose two tiers are both finite and both take a share
C11_Witness ==
    /\ egressPrev # Null
    /\ egressLast # Null
    /\ egressPrev[1].query = 10000
    /\ egressLast[1].query = 20000
    /\ \E p \in ProviderSet :
          /\ IsScenarioPricing(bundled[p].egress)
          /\ CostOf(egressPrev[1], p) = 891000
          /\ CostOf(egressLast[1], p) = 1400600
    /\ \E p \in ProviderSet :
          LET e == bundled[p].egress
              shares == TierShares(e, 20000)
          IN /\ Len(e.tiers) = 2
             /\ e.tiers[1].upToGB # -1
             /\ e.tiers[2].upToGB # -1
             /\ shares[1] > 0
             /\ shares[2] > 0
             /\ CostOf(egressLast[1], p) < 20000 * 2

----------------------------------------------------------------------------
(* Properties of compareStorage (checked under SpecStorage) *)

\* the storage options of the bundles, in the loader's order
StorageCatalog ==
    bundled.aws.storage \o bundled.azure.storage
    \o bundled.gcp.storage \o bundled.oci.storage

PassesStorage(r, query) ==
    /\ query.tier # Null => r.tier = query.tier[1]
    /\ query.type # Null => r.type = query.type[1]

\* the catalog positions of the records that pass the filters
Passing(query) ==
    {i \in 1..Len(StorageCatalog) : PassesStorage(StorageCatalog[i], query)}

----------------------------------------------------------------------------
(* Properties of compareKubernetes (checked under SpecK8s) *)

\* the instances of a provider that the window of a node shape accepts
AcceptedOf(p, vcpus, memoryGB) ==
    {i \in 1..Len(Catalog) :
        /\ Catalog[i].provider = p
        /\ windowMatch(Catalog[i], vcpus, memoryGB)}

\* the lowest monthly price among these instances
CheapestPriceOf(p, vcpus, memoryGB) ==
    LET acc == AcceptedOf(p, vcpus, memoryGB)
    IN CHOOSE c \in {Catalog[i].monthlyPrice : i \in acc} :
          \A i \in acc : c <= Catalog[i].monthlyPrice

\* C13: compareKubernetes lists every provider that has Kubernetes pricing
\* with totalMonthlyCost = controlPlaneMonthly + (monthly price of that
\* provider's cheapest instance accepted for the node shape * nodeCount),
\* sorted ascending by total; a provider's workerNodeCost is 0 exactly when
\* no instance of that provider is accepted for the node shape, and such a
\* provider is still listed.
C13_KubernetesTotals ==
    (k8sResult # Null /\ ~k8sResult[1].ret.threw) =>
       LET o == k8sResult[1].options
           est == k8sResult[1].ret.estimates
       IN /\ {est[k].provider : k \in 1..Len(est)}
                = {p \in ProviderSet : bundled[p].kubernetes # Null}
          /\ Len(est) = Cardinality({p \in ProviderSet :
                                        bundled[p].kubernetes # Null})
          /\ \A k \in 1..(Len(est) - 1) :
                est[k].totalMonthlyCost <= est[k + 1].totalMonthlyCost
          /\ \A k \in 1..Len(est) :
                LET p == est[k].provider
                    none == AcceptedOf(p, o.nodeVcpus, o.nodeMemoryGB) = {}
                IN /\ (est[k].workerNodeCost = 0) <=> none
                   /\ est[k].controlPlaneCost
                         = bundled[p].kubernetes[1].controlPlaneMonthly
                   /\ est[k].totalMonthlyCost =
                         est[k].controlPlaneCost +
                         (IF none THEN 0
                          ELSE CheapestPriceOf(p, o.nodeVcpus, o.nodeMemoryGB)
                                  * o.nodeCount)

----------------------------------------------------------------------------
(* Properties of the cost calculator (checked under SpecWorkload) *)

\* the result of the last calculateWorkloadCost, directly or by a preset
Calculated ==
    /\ workloadResult # Null
    /\ workloadResult[1].op \in {"calculateWorkloadCost", "quickEstimate"}
    /\ ~workloadResult[1].ret.threw

\* the spec the last result was calculated for
SpecAsked ==
    IF workloadResult[1].op = "quickEstimate"
    THEN presets[workloadResult[1].arg]
    ELSE workloadResult[1].arg

SumOfLines(breakdown) ==
    LET sum[i \in 0..Len(breakdown)] ==
            IF i = 0 THEN 0 ELSE sum[i - 1] + breakdown[i].monthlyTotal
    IN sum[Len(breakdown)]

NothingAsked(spec) ==
    /\ spec.compute = Null
    /\ spec.storage = Null
    /\ spec.egress = Null
    /\ spec.kubernetes = Null

\* C14: for every provider and every WorkloadSpec the estimate's
\* totalMonthly is the sum of the monthlyTotal of its breakdown lines; for a
\* spec with no populated sub-request each of the four providers gets total
\* 0 and an empty breakdown.
C14_TotalIsSumOfLines ==
    Calculated =>
       LET est == workloadResult[1].ret.estimates
       IN /\ \A k \in 1..Len(est) :
                est[k].totalMonthly = SumOfLines(est[k].breakdown)
          /\ NothingAsked(SpecAsked) =>
                /\ {est[k].provider : k \in 1..Len(est)} = ProviderSet
                /\ \A k \in 1..Len(est) :
                      est[k].totalMonthly = 0 /\ est[k].breakdown = <<>>

\* an estimate of several lines with different totals, none of them zero
C14_Witness ==
    /\ Calculated
    /\ \E k \in 1..Len(workloadResult[1].ret.estimates) :
          LET lines == workloadResult[1].ret.estimates[k].breakdown
          IN /\ Len(lines) >= 4
             /\ \A i \in 1..Len(lines) : lines[i].monthlyTotal > 0
             /\ lines[1].monthlyTotal # lines[2].monthlyTotal

\* the Compute lines of an estimate
ComputeLinesOf(est) ==
    SelectSeq(est.breakdown, LAMBDA l : l.category = "Compute")

\* the advisory notes of an estimate that say no instance was found
NoMatchNotesOf(est) ==
    SelectSeq(est.notes,
              LAMBDA n : n = "No matching compute instance found")

\* the instance count a compute request asks for: 1 when it names none
RequestedCount(request) ==
    IF request.count = Null THEN 1 ELSE request.count[1]

\* C15: for a provider and a spec with a compute request, if at least one
\* instance of that provider is accepted by the matching window the estimate
\* has exactly one Compute line with quantity = the requested instance
\* count, unit price = the monthly price of that provider's cheapest accepted
\* instance and line total = unit price * count; if none is accepted it has
\* no Compute line and one advisory note saying no matching instance was
\* found.
C15_ComputeLine ==
    (Calculated /\ SpecAsked.compute # Null) =>
       LET request == SpecAsked.compute[1]
           est == workloadResult[1].ret.estimates
       IN \A k \in 1..Len(est) :
             LET p == est[k].provider
                 lines == ComputeLinesOf(est[k])
                 notes == NoMatchNotesOf(est[k])
             IN IF AcceptedOf(p, request.vcpus, request.memoryGB) # {}
                THEN /\ Len(lines) = 1
                     /\ Len(notes) = 0
                     /\ lines[1].quantity = RequestedCount(request)
                     /\ lines[1].unitPrice =
                           Ratio(CheapestPriceOf(p, request.vcpus,
                                                 request.memoryGB), 1)
                     /\ lines[1].monthlyTotal =
                           CheapestPriceOf(p, request.vcpus, request.memoryGB)
                              * RequestedCount(request)
                ELSE /\ Len(lines) = 0
                     /\ Len(notes) = 1

\* C16: calculateWorkloadCost returns one estimate for each of the four
\* providers, sorted ascending by totalMonthly, and cheapest is the provider
\* of the first estimate, whose total is <= the total of every other
\* provider.
C16_RankedEstimates ==
    Calculated =>
       LET r == workloadResult[1].ret
           est == r.estimates
       IN /\ Len(est) = 4
          /\ {est[k].provider : k \in 1..Len(est)} = ProviderSet
          /\ \A k \in 1..(Len(est) - 1) :
                est[k].totalMonthly <= est[k + 1].totalMonthly
          /\ r.cheapest = est[1].provider
          /\ \A k \in 1..Len(est) : est[1].totalMonthly <= est[k].totalMonthly

\* four different positive totals, returned in another order than that of
\* the providers
C16_Witness ==
    /\ Calculated
    /\ LET est == workloadResult[1].ret.estimates
       IN /\ est[1].totalMonthly > 0
          /\ \A k \in 1..(Len(est) - 1) :
                est[k].totalMonthly < est[k + 1].totalMonthly
          /\ est[1].provider # "aws"
          /\ est[4].provider # "oci"

\* the estimate of AWS in the last result
AwsEstimate ==
    LET est == workloadResult[1].ret.estimates
    IN est[CHOOSE k \in 1..Len(est) : est[k].provider = "aws"]

\* n is x / y rounded to the nearest integer, halves upward (y > 0)
IsRounded(n, x, y) == 2 * n * y <= 2 * x + y /\ 2 * x + y < 2 * (n + 1) * y

\* C17: the savings narrative of calculateWorkloadCost compares the cheapest
\* provider with the fixed baseline AWS: when AWS's total is greater than 0
\* and AWS is not the cheapest it states the amount AWS total - cheapest
\* total and the percentage round((AWS total - cheapest total) / AWS total
\* * 100); when AWS's total is 0 there is no percentage sentence and no
\* division.
C17_SavingsVsBaseline ==
    Calculated =>
       LET r == workloadResult[1].ret
           aws == AwsEstimate.totalMonthly
           low == r.estimates[1].totalMonthly
           said == r.savingsSummary.vsAWS
       IN /\ (aws > 0 /\ r.cheapest # "aws") =>
                /\ said # Null
                /\ said[1].savingsAmount = aws - low
                /\ IsRounded(said[1].savingsPercent, (aws - low) * 100, aws)
          /\ aws = 0 => said = Null

\* savings against AWS whose percentage is rounded upward and is neither 0
\* nor 100
C17_Witness ==
    /\ Calculated
    /\ LET r == workloadResult[1].ret
           aws == AwsEstimate.totalMonthly
           low == r.estimates[1].totalMonthly
       IN /\ r.cheapest # "aws"
          /\ aws > 0
          /\ low > 0
          /\ r.savingsSummary.vsAWS # Null
          /\ r.savingsSummary.vsAWS[1].savingsPercent * aws > (aws - low) * 100

\* the result of the last estimateMigrationSavings that returned
Migrated ==
    /\ workloadResult # Null
    /\ workloadResult[1].op = "estimateMigrationSavings"
    /\ ~workloadResult[1].ret.threw

\* what calculateProviderCost gives a provider for a spec on the bundles
TotalOn(spec, p) ==
    calculateProviderCost(spec, p,
        [compute |-> Catalog, storage |-> StorageCatalog,
         egress |-> <<bundled.aws.egress, bundled.azure.egress,
                      bundled.gcp.egress, bundled.oci.egress>>,
         k8s |-> [q \in ProviderSet |-> bundled[q].kubernetes]]).totalMonthly

\* an amount in thousandths of a dollar, rounded to cents
RoundedToCents(x) == (2 * x + 10) \div 20

\* C18: estimateMigrationSavings reports monthlySavings = the current
\* provider's total - the target provider's total and annualSavings = 12 *
\* monthlySavings, the target being the explicit targetProvider or else the
\* cheapest provider; the recommendation says 'could save' when the savings
\* are positive, 'already cheaper' when negative, and 'costs are similar'
\* exactly when the savings are 0 after rounding.
C18_MigrationSavings ==
    Migrated =>
       LET o == workloadResult[1].arg
           r == workloadResult[1].ret
           target == IF o.targetProvider \in {Null, Some("")}
                     THEN CHOOSE p \in ProviderSet :
                             \A q \in ProviderSet :
                                TotalOn(o.spec, p) <= TotalOn(o.spec, q)
                     ELSE o.targetProvider[1]
           rounded == RoundedToCents(r.monthlySavings)
       IN /\ r.monthlySavings =
                TotalOn(o.spec, o.currentProvider) - TotalOn(o.spec, target)
          /\ r.annualSavings = 12 * r.monthlySavings
          /\ (r.recommendation = "costs are similar") <=> (rounded = 0)
          /\ rounded > 0 => r.recommendation = "could save"
          /\ rounded < 0 => r.recommendation = "already cheaper"

\* C19: a request that names a preset or a provider that does not exist is
\* never silently replaced by another one: quickEstimate with an unknown
\* preset fails with an error that lists all valid preset names and computes
\* nothing, and estimateMigrationSavings / getProviderData with a provider
\* outside {aws, azure, gcp, oci} fails with a descriptive error listing the
\* valid providers.
C19_UnknownNamesFail ==
    workloadResult # Null =>
       LET op == workloadResult[1].op
           arg == workloadResult[1].arg
           r == workloadResult[1].ret
       IN /\ (op = "quickEstimate" /\ arg \notin DOMAIN presets) =>
                /\ r.threw
                /\ r.subject = arg
                /\ r.lists = DOMAIN presets
          /\ (op = "getProviderData" /\ arg \notin ProviderSet) =>
                /\ r.threw
                /\ r.lists = ProviderSet
          /\ (op = "estimateMigrationSavings"
              /\ (arg.currentProvider \notin ProviderSet
                  \/ (arg.targetProvider # Null
                      /\ arg.targetProvider[1] \notin ProviderSet))) =>
                /\ r.threw
                /\ r.lists = ProviderSet

----------------------------------------------------------------------------
(* Lifetime of fetched entries (checked under SpecFetch) *)

\* caller p's fetch returns in this step, having written its entry
WritesEntry(p) ==
    /\ calls[p].pc = "awaitJson"
    /\ calls'[p].pc = "returned"

\* caller p calls a fetcher in this step and is answered from the cache
ServedFromCache(p) ==
    /\ ~InFlight(calls[p])
    /\ calls'[p] # calls[p]
    /\ calls'[p].pc = "returned"
    /\ calls'[p].ret[1].source = "cache"

\* caller p calls a fetcher in this step and goes to the upstream
GoesUpstream(p) ==
    /\ ~InFlight(calls[p])
    /\ calls'[p].pc = "awaitFetch"

\* the entry under a key is there and its expiry has not passed
Live(key) == key \in DOMAIN cache /\ now <= cache[key].expiresAt

\* the minutes an entry of fetcher f is to live, those of the OCI real-time
\* fetcher living ociMinutes
minutesFor(f, ociMinutes) ==
    IF f = "fetchOCIRealTimePricing" THEN ociMinutes ELSE 60

\* a step in which every entry written expires minutesFor its fetcher after
\* now, a call is served from the cache only by a live entry, with that
\* entry's data, and goes upstream only when there is no live entry
LifetimeStep(ociMinutes) ==
    \A p \in Callers :
       /\ WritesEntry(p) =>
             cache'[calls[p].key].expiresAt
                = now + minutesFor(calls[p].fetcher, ociMinutes) * MsPerMinute
       /\ ServedFromCache(p) =>
             /\ Live(calls'[p].key)
             /\ calls'[p].ret[1].data = cache[calls'[p].key].data
       /\ GoesUpstream(p) => ~Live(calls'[p].key)

----------------------------------------------------------------------------
(* Cumulative tier ceilings (checked under SpecEgress) *)

\* finite ceilings rising in list order, an unbounded tier only at the end
RisingTiers(tiers) ==
    \A i \in 1..Len(tiers) :
       /\ tiers[i].upToGB = -1 => i = Len(tiers)
       /\ (i > 1 /\ tiers[i].upToGB # -1) => tiers[i - 1].upToGB < tiers[i].upToGB

FiniteTiers(tiers) == {i \in 1..Len(tiers) : tiers[i].upToGB # -1}

\* the GB the loop bills in the first k tiers
BilledThrough(taken, k) ==
    LET sum[i \in 0..k] == IF i = 0 THEN 0 ELSE sum[i - 1] + taken[i]
    IN sum[k]

\* C21: egress tier ceilings are cumulative: for every tier list with two or
\* more finite tiers, every F and every Q, the total GB billed by the tiers
\* up to and including finite tier k never exceeds upToGB_k - F, so the GB
\* billed at tier k's price never exceeds upToGB_k - upToGB_(k-1).
C21_CumulativeCeilings ==
    egressLast # Null =>
       \A p \in ProviderSet :
          LET e == bundled[p].egress
              F == e.freeGBPerMonth
              Q == egressLast[1].query
              taken == gbInTiers(e.tiers, F, billableGB(Q, F))
          IN (RisingTiers(e.tiers) /\ Cardinality(FiniteTiers(e.tiers)) >= 2)
                => \A k \in FiniteTiers(e.tiers) :
                      /\ BilledThrough(taken, k)
                            <= Max2(0, e.tiers[k].upToGB - F)
                      /\ k > 1 => taken[k] <= e.tiers[k].upToGB
                                                - e.tiers[k - 1].upToGB

----------------------------------------------------------------------------
(* Volumes beyond the last finite tier (checked under SpecEgress) *)

HasUnbounded(tiers) == \E i \in 1..Len(tiers) : tiers[i].upToGB = -1

\* the billable GB the loop leaves without a price
UnpricedGB(e, Q) ==
    billableGB(Q, e.freeGBPerMonth)
       - BilledThrough(gbInTiers(e.tiers, e.freeGBPerMonth,
                                 billableGB(Q, e.freeGBPerMonth)),
                       Len(e.tiers))

\* the estimate is an ordinary one: a number for the cost and a breakdown
\* that reports the whole billable volume as billed at tiered rates
UnflaggedCost(est, e, Q) ==
    /\ DOMAIN est = {"provider", "monthlyCost", "breakdown"}
    /\ est.monthlyCost \in Nat
    /\ est.breakdown = [freeGB |-> e.freeGBPerMonth,
                        billedAtTieredRates |->
                            Some(billableGB(Q, e.freeGBPerMonth))]

\* C22: when a provider's egress tier list has no unbounded (upToGB = -1)
\* tier and the billable volume exceeds the capacity of all finite tiers,
\* compareEgress does not crash and flags the result as undefined for that
\* provider instead of returning a cost that leaves the excess GB unpriced.
C22_ExcessFlagged ==
    egressLast # Null =>
       \A p \in ProviderSet :
          LET e == bundled[p].egress
              Q == egressLast[1].query
              est == findEstimate(egressLast[1].estimates, p)
          IN (~HasUnbounded(e.tiers) /\ UnpricedGB(e, Q) > 0)
                => /\ est # Null
                   /\ ~UnflaggedCost(est[1], e, Q)

----------------------------------------------------------------------------
(* The egress line and its note (checked under SpecWorkload) *)

EgressLinesOf(est) ==
    SelectSeq(est.breakdown, LAMBDA l : l.category = "Networking")

\* the notes of an estimate that are about neither compute nor Kubernetes
OtherNotesOf(est) ==
    SelectSeq(est.notes,
              LAMBDA n : n \notin {"No matching compute instance found",
                                   "Free Kubernetes control plane"})

\* a note that names the free egress allowance of provider p
NamesAllowance(note, p) ==
    note = "OCI: 10TB/month free egress included"
       => (p = "oci" /\ bundled[p].egress.freeGBPerMonth = 10240)

\* the estimate has one egress line, whose total is the tiered cost
OneEgressLine(est, Q) ==
    /\ Len(EgressLinesOf(est)) = 1
    /\ EgressLinesOf(est)[1].monthlyTotal
          = SumOfShares(bundled[est.provider].egress, Q)

\* C23: for every provider and every spec with an egress request, the
\* estimate has one egress line whose total is the tiered egress cost, and
\* whenever that cost is exactly 0 for a provider whose free allowance is
\* greater than 0 the estimate carries an advisory note naming that
\* provider's allowance (for AWS, Azure and GCP as well as OCI).
C23_EgressLineAndNote ==
    (Calculated /\ SpecAsked.egress # Null) =>
       LET est == workloadResult[1].ret.estimates
           Q == SpecAsked.egress[1].monthlyGB
       IN \A k \in 1..Len(est) :
             /\ OneEgressLine(est[k], Q)
             /\ (SumOfShares(bundled[est[k].provider].egress, Q) = 0
                 /\ bundled[est[k].provider].egress.freeGBPerMonth > 0)
                   => \E i \in 1..Len(OtherNotesOf(est[k])) :
                         NamesAllowance(OtherNotesOf(est[k])[i],
                                        est[k].provider)

----------------------------------------------------------------------------
(* Provider data is read through the cache (checked under SpecLoader) *)

\* a loader function is called in this step
CallOf(op) ==
    /\ workloadResult = Null
    /\ workloadResult' # Null
    /\ workloadResult'[1].op = op

\* what a call for provider p is to give now: the stored bundle while its
\* entry lives, else the file as it is
StoredOrFile(p) ==
    IF Live(providerKeyOf(p)) THEN cache[providerKeyOf(p)].data
    ELSE bundled[p]

\* the entry a write at this moment leaves under a key
EntryNow(data, minutes) ==
    [data |-> data, timestamp |-> now,
     expiresAt |-> now + minutes * MsPerMinute]

\* the cache after the step is the one before it, but for these keys
SameBut(keys) ==
    \A k \in (DOMAIN cache \cup DOMAIN cache') \ keys :
       k \in DOMAIN cache /\ k \in DOMAIN cache' /\ cache'[k] = cache[k]

\* getProviderData(p): the stored bundle, untouched, or the file loaded and
\* stored for 24 hours
ProviderRead(p) ==
    /\ workloadResult'[1].ret = [threw |-> FALSE, data |-> StoredOrFile(p)]
    /\ IF Live(providerKeyOf(p)) THEN cache' = cache
       ELSE /\ providerKeyOf(p) \in DOMAIN cache'
            /\ cache'[providerKeyOf(p)] = EntryNow(bundled[p], 24 * 60)
            /\ SameBut({providerKeyOf(p)})

\* the four lists of a field, of the stored bundles and the files
MergedNow(field) ==
    StoredOrFile("aws")[field] \o StoredOrFile("azure")[field]
       \o StoredOrFile("gcp")[field] \o StoredOrFile("oci")[field]

\* a merged list: the stored list, untouched, or the list built from the
\* four providers read as above, and stored for 60 minutes
MergedRead(key, field) ==
    IF Live(key)
    THEN /\ workloadResult'[1].ret = [threw |-> FALSE, data |-> cache[key].data]
         /\ cache' = cache
    ELSE /\ workloadResult'[1].ret = [threw |-> FALSE, data |-> MergedNow(field)]
         /\ key \in DOMAIN cache'
         /\ cache'[key] = EntryNow(MergedNow(field), 60)
         /\ \A p \in ProviderSet :
               /\ providerKeyOf(p) \in DOMAIN cache'
               /\ cache'[providerKeyOf(p)] =
                     IF Live(providerKeyOf(p)) THEN cache[providerKeyOf(p)]
                     ELSE EntryNow(bundled[p], 24 * 60)
         /\ SameBut({key} \cup {providerKeyOf(p) : p \in ProviderSet})

\* refreshAllCache is the one step that changes the cache with no call, no
\* passing of time and no file written
IsRefresh ==
    /\ cache' # cache
    /\ UNCHANGED <<now, bundled, workloadResult>>

ReadThroughCache ==
    /\ \A p \in ProviderSet :
          (CallOf("getProviderData") /\ workloadResult'[1].arg = p)
             => ProviderRead(p)
    /\ CallOf("getAllComputeInstances") => MergedRead(ALL_COMPUTE, "compute")
    /\ CallOf("getAllStorageOptions") => MergedRead(ALL_STORAGE, "storage")
    /\ IsRefresh => DOMAIN cache' = {}

\* C24: provider data is read through the cache: the first
\* getProviderData(p) after start-up or after refreshAllCache loads the
\* bundle and stores it, every later call within the entry's lifetime
\* returns the stored bundle without loading again, and after
\* refreshAllCache (or expiry) the next call for each provider and for the
\* merged compute and storage lists loads again rather than returning
\* pre-refresh data.
C24_ReadThroughCache == [][ReadThroughCache]_vars

\* a day and more after the merged list was built from the first files, a
\* call for aws has loaded the rewritten file, while the expired merged
\* list of the first hour is still in the store
C24_Witness ==
    /\ now > 24 * 60 * MsPerMinute
    /\ workloadResult # Null
    /\ workloadResult[1].op = "getProviderData"
    /\ workloadResult[1].arg = "aws"
    /\ workloadResult[1].ret.data = LoaderBundle("aws", 2)
    /\ ALL_COMPUTE \in DOMAIN cache
    /\ cache[ALL_COMPUTE].timestamp = 0
    /\ cache[ALL_COMPUTE].data[1] = LoaderBundle("aws", 1).compute[1]
    /\ Live(providerKeyOf("aws"))
    /\ cache[providerKeyOf("aws")].timestamp = now
    /\ providerKeyOf("oci") \in DOMAIN cache
    /\ ~Live(providerKeyOf("oci"))

----------------------------------------------------------------------------
(* Properties of the queries (checked under SpecQueries) *)

\* C25: no comparison or workload query changes the data it reads: whatever
\* calls of compareCompute, compareStorage, compareEgress, compareKubernetes
\* and calculateWorkloadCost have been made, every cached provider bundle is
\* the bundle as it was read, and the cached merged compute and storage lists
\* hold the providers' elements in the order they were merged in.
C25_QueriesLeaveCatalog ==
    /\ \A p \in ProviderSet :
          providerKeyOf(p) \in DOMAIN cache =>
              cache[providerKeyOf(p)].data = bundled[p]
    /\ ALL_COMPUTE \in DOMAIN cache =>
          cache[ALL_COMPUTE].data = spread(bundled, "compute")
    /\ ALL_STORAGE \in DOMAIN cache =>
          cache[ALL_STORAGE].data = spread(bundled, "storage")

\* compareStorage has answered a query without tier or type, where `matches`
\* is the cached array, with estimates in another order than the cached list,
\* and the merged compute list is cached too
C25_Witness ==
    /\ storageResult # Null
    /\ storageResult[1].query.tier = Null
    /\ storageResult[1].query.type = Null
    /\ storageResult[1].monthlyEstimates[1].name
          # cache[ALL_STORAGE].data[1].name
    /\ ALL_COMPUTE \in DOMAIN cache
    /\ Len(cache[ALL_COMPUTE].data) > 1
----------------------------------------------------------------------------
(* Properties of the constructed records (checked under SpecPrices) *)

\* C26: every ComputeInstance record the program constructs has
\* monthlyPrice = round(hourlyPrice * 730 * 100) / 100, the Lightsail bundles
\* and the Azure Retail API instances included.
C26_MonthlyFromHourly ==
    computeResult # Null =>
        \A i \in 1..Len(computeResult[1].instances) :
            computeResult[1].instances[i].monthlyPrice
                = roundedMonthly(computeResult[1].instances[i].hourlyPrice)
----------------------------------------------------------------------------
(* Reads of the cache (checked under Spec) *)

\* C27: reading does not extend an entry's life: get(k) or has(k) on an
\* unexpired key leaves every entry as it is, value and expiry time, and
\* get(k) on an expired key removes k and nothing else, expired or not.
\* the step is a call of one of the given operations on k
ReadOf(k, ops) ==
    /\ lastOp'.op \in ops
    /\ lastOp'.key = k
    /\ now' = now

ReadLeavesOthers ==
    \A k \in Keys :
        /\ (ReadOf(k, {"get", "has"}) /\ Standing(cache, now, k) = "fresh") =>
               cache' = cache
        /\ (ReadOf(k, {"get"}) /\ Standing(cache, now, k) = "expired") =>
               /\ DOMAIN cache' = DOMAIN cache \ {k}
               /\ \A j \in DOMAIN cache' : cache'[j] = cache[j]

C27_ReadsDoNotRenew == [][ReadLeavesOthers]_vars

\* a get has just removed an expired key and another expired entry is still
\* in the store
C27_Witness ==
    /\ lastOp.op = "get"
    /\ lastOp.pre = "expired"
    /\ \E j \in DOMAIN cache : j # lastOp.key /\ now > cache[j].expiresAt
----------------------------------------------------------------------------
(* Clears and fetches in flight (checked under SpecFetch) *)

\* C28: a clear wins over the fetches already in flight: a fetch whose
\* request went out before refreshAllCache / clear() ran and whose answer
\* comes after it does not put its result into the cache.
ClearedFetchWritesNothing ==
    \A p \in Callers :
        (/\ calls[p].pc = "awaitJson"
         /\ calls[p].cleared
         /\ calls'[p].pc = "returned") => cache' = cache

C28_ClearWins == [][ClearedFetchWritesNothing]_vars
----------------------------------------------------------------------------
(* Fetchers next to the loader (checked under SpecMixed) *)

\* the keys getProviderData, getAllComputeInstances and getAllStorageOptions
\* read and write
LoaderKeys ==
    {providerKeyOf(p) : p \in ProviderSet} \cup {ALL_COMPUTE, ALL_STORAGE}

\* the step is a step of a fetcher call: a caller has moved on
FetcherStep ==
    \E p \in Callers :
        <<calls'[p].pc, calls'[p].key, calls'[p].ret>>
            # <<calls[p].pc, calls[p].key, calls[p].ret>>

\* what the comparisons would be given, read in the state before and after
SameReads ==
    /\ \A p \in ProviderSet :
          getProviderData(cache', now', bundled', p).ret
              = getProviderData(cache, now, bundled, p).ret
    /\ getAllComputeInstances(cache', now', bundled').ret
          = getAllComputeInstances(cache, now, bundled).ret
    /\ getAllStorageOptions(cache', now', bundled').ret
          = getAllStorageOptions(cache, now, bundled).ret

\* C29: fetchers and loader write disjoint cache keys: no step of a fetcher
\* call creates, replaces or removes an entry that getProviderData,
\* getAllComputeInstances or getAllStorageOptions read, so what the
\* comparisons and the calculator are given is the same before and after.
FetchersKeepOff ==
    FetcherStep =>
        /\ \A k \in LoaderKeys :
              /\ k \in DOMAIN cache' <=> k \in DOMAIN cache
              /\ k \in DOMAIN cache => cache'[k] = cache[k]
        /\ SameReads

C29_DisjointKeys == [][FetchersKeepOff]_vars

\* a fetcher has stored its answer next to a bundle and a merged list that
\* are older than the bundle file
C29_Witness ==
    /\ calls[MixedCaller].pc = "returned"
    /\ calls[MixedCaller].ret[1].source = "upstream"
    /\ calls[MixedCaller].key \in DOMAIN cache
    /\ providerKeyOf("aws") \in DOMAIN cache
    /\ ALL_COMPUTE \in DOMAIN cache
    /\ cache[providerKeyOf("aws")].data # bundled.aws
----------------------------------------------------------------------------
(* Migration to the cheapest provider (checked under SpecWorkload) *)

\* estimateMigrationSavings has returned for options without a targetProvider
MigratedToCheapest ==
    /\ Migrated
    /\ workloadResult[1].arg.targetProvider = Null

\* C30: when estimateMigrationSavings is called without a targetProvider the
\* target is the cheapest provider, whatever the spec and the current
\* provider: monthlySavings >= 0, annualSavings >= 0, percentSavings is
\* between 0 and 100 and the recommendation is never 'already cheaper'.
C30_CheapestTargetNeverLoses ==
    MigratedToCheapest =>
       LET o == workloadResult[1].arg
           r == workloadResult[1].ret
       IN /\ \A q \in ProviderSet : r.targetCost <= TotalOn(o.spec, q)
          /\ r.monthlySavings >= 0
          /\ r.annualSavings >= 0
          /\ r.percentSavings \in 0..100
          /\ r.recommendation # "already cheaper"

\* the current provider is not the cheapest and the move would save money
C30_Witness ==
    /\ MigratedToCheapest
    /\ workloadResult[1].ret.targetProvider
          # workloadResult[1].arg.currentProvider
    /\ workloadResult[1].ret.monthlySavings > 0
    /\ workloadResult[1].ret.percentSavings > 0
====
